---------------------------- MODULE Spec2Model ----------------------------
(***************************************************************************)
(* Model of the OBO <-> JSON core of ols_fetch_from_github:                *)
(*   obo_parser.py       OBOFileParser   (text -> Document)                *)
(*   file_converter.py   FileConverter   (Document -> text)                *)
(*   file_comparator.py  FileComparator  (two Documents -> change report)  *)
(*                                                                         *)
(* Python values are modelled as follows.                                  *)
(*   str        a sequence of one-character strings                        *)
(*   dict       a sequence of [k, v] entries in insertion order, keys      *)
(*              unique; dict == dict is equality of the entry sets         *)
(*   a value    Str(s) | List(items) | Ref(id, name), tagged records       *)
(*   Document   [header, terms, has_typedefs, typedefs]; has_typedefs is   *)
(*              the presence of the 'typedefs' key                         *)
(***************************************************************************)
EXTENDS Integers, Sequences, FiniteSets, TLC

VARIABLES
    pc,               \* position of the running operation
    src,              \* the lines the input file was written from
    content,          \* parse_obo_file: the text read from the file
    sections,         \* parse_obo_file: re.split result
    section_markers,  \* parse_obo_file: re.findall result
    header,           \* parse_obo_file: parsed header dict
    terms,            \* parse_obo_file: term records so far
    typedefs,         \* parse_obo_file: typedef records so far
    i,                \* parse_obo_file: loop index over sections[1:]
    section_lines,    \* _parse_section: lines still to be handled
    parsed_section,   \* _parse_section: the record being built
    line,             \* _parse_section: the line the loop handled last
    result,           \* parse_obo_file: returned Document
    data,             \* convert_json_to_obo: the Document loaded from JSON
    obo_lines,        \* convert_json_to_obo: the lines emitted
    obo_text,         \* convert_json_to_obo: text written to the OBO file
    old_data,         \* compare_json_files: old Document
    new_data,         \* compare_json_files: new Document
    report,           \* compare_json_files(old, new): returned report or None
    report_rev,       \* compare_json_files(new, old): returned report or None
    original_file,    \* validate_roundtrip_conversion: the original OBO file
    reverted_file,    \* validate_roundtrip_conversion: the re-serialized file
    steps,            \* validate_roundtrip_conversion: the comparisons run
    valid,            \* the validator's returned bool
    json_value,       \* validate_json_structure: the data argument
    validation,       \* validate_json_structure: the returned result
    candidate,        \* the file given to process_user_file / downloaded
    disk,             \* the files the operation has created and not removed
    user_data,        \* _process_obo_file: the parsed Document
    processed_files,  \* UserFileProcessor.processed_files
    committed,        \* GitHubFileUpdater: the candidate became a version
    returned,         \* what the operation returned
    given,            \* module-level functions: the text or Document given
    class_output,     \* what the class-based function returned or wrote
    module_output,    \* what the module-level function returned or wrote
    directory,        \* the names of the files in SBO_OBO_Files/localfiles
    found,            \* what the search for the latest file returned
    local_filename,   \* GitHubFileUpdater.local_filename
    apply_result,     \* what _apply_update returned
    active_file,      \* SBOWorkflowManager.active_file
    choice_input      \* _get_user_choice: the text input() returned last

vars == <<pc, src, content, sections, section_markers, header, terms, typedefs,
          i, section_lines, parsed_section, line, result, data, obo_lines,
          obo_text, old_data, new_data, report, report_rev, original_file,
          reverted_file, steps, valid, json_value, validation, candidate,
          disk, user_data, processed_files, committed, returned, given,
          class_output, module_output, directory, found, local_filename,
          apply_result, active_file, choice_input>>

parserVars == <<src, content, sections, section_markers, header, terms,
                typedefs, i, section_lines, parsed_section, line, result>>
converterVars == <<data, obo_lines, obo_text>>
comparatorVars == <<old_data, new_data, report, report_rev>>
validatorVars == <<original_file, reverted_file, steps, valid>>
structureVars == <<json_value, validation>>
pipelineVars == <<candidate, disk, user_data, processed_files, committed,
                  returned>>

moduleVars == <<given, class_output, module_output>>

\* the variables of the components modelled after the pipeline
versionVars == <<directory, found, local_filename, apply_result>>
workflowVars == <<active_file, choice_input>>
laterVars == <<moduleVars, versionVars, workflowVars>>

\* the variables of the components modelled after the first three
restVars == <<validatorVars, structureVars, pipelineVars, laterVars>>

None == [tag |-> "None"]

\* no line handled yet: a text no line can be (lines hold no newline)
NoLine == <<"\n">>

-----------------------------------------------------------------------------
(* Bounds of the explored inputs *)

MaxLines == 4      \* lines of an input OBO file
MaxRecords == 3    \* term records of the two compared Documents together
MaxDocTerms == 2   \* term records of a Document given to the converter
MaxEmitted == 3    \* lines of a list given to _write_to_file
MaxTextLines == 2  \* lines of a file given to the validator
MaxJsonTerms == 2  \* items of the terms list given to validate_json_structure
MaxCandidateLines == 3  \* lines of an OBO file given to process_user_file

-----------------------------------------------------------------------------
(* Python str methods *)

\* characters str.strip()/lstrip()/rstrip() and the regex class \s remove
Whitespace == {" ", "\t", "\n"}

\* the regex class \d
Digits == {"0", "1", "2", "3", "4", "5", "6", "7", "8", "9"}

RECURSIVE lstrip(_)
lstrip(s) ==
    IF s # <<>> /\ Head(s) \in Whitespace THEN lstrip(Tail(s)) ELSE s

RECURSIVE rstrip(_)
rstrip(s) ==
    IF s # <<>> /\ s[Len(s)] \in Whitespace
    THEN rstrip(SubSeq(s, 1, Len(s) - 1))
    ELSE s

strip(s) == lstrip(rstrip(s))

\* line.rstrip('\n')
RECURSIVE rstrip_nl(_)
rstrip_nl(s) ==
    IF s # <<>> /\ s[Len(s)] = "\n"
    THEN rstrip_nl(SubSeq(s, 1, Len(s) - 1))
    ELSE s

\* c in s
contains(s, c) == \E n \in 1..Len(s) : s[n] = c

\* s.startswith(p)
startswith(s, p) == Len(s) >= Len(p) /\ SubSeq(s, 1, Len(p)) = p

\* s.split(c): always at least one element
RECURSIVE split(_, _)
split(s, c) ==
    IF ~contains(s, c)
    THEN <<s>>
    ELSE LET n == CHOOSE n \in 1..Len(s) :
                      s[n] = c /\ \A m \in 1..(n - 1) : s[m] # c
         IN  <<SubSeq(s, 1, n - 1)>> \o split(SubSeq(s, n + 1, Len(s)), c)

\* s.split(':', 1) for an s that contains ':'
split_colon(s) ==
    LET n == CHOOSE n \in 1..Len(s) :
                 s[n] = ":" /\ \A m \in 1..(n - 1) : s[m] # ":"
    IN  <<SubSeq(s, 1, n - 1), SubSeq(s, n + 1, Len(s))>>

\* '\n'.join(lines)
RECURSIVE join_nl(_)
join_nl(lines) ==
    IF lines = <<>> THEN <<>>
    ELSE IF Len(lines) = 1 THEN lines[1]
    ELSE lines[1] \o <<"\n">> \o join_nl(Tail(lines))

-----------------------------------------------------------------------------
(* Python values and dicts *)

Str(s) == [tag |-> "str", s |-> s]
List(items) == [tag |-> "list", items |-> items]
Ref(id, name) == [tag |-> "ref", id |-> id, name |-> name]

\* an entry of a dict
Entry(k, v) == [k |-> k, v |-> v]

\* isinstance(v, list)
isinstance_list(v) == v.tag = "list"

\* key in d
dict_has(d, k) == \E n \in 1..Len(d) : d[n].k = k

\* d[key]
dict_get(d, k) == d[CHOOSE n \in 1..Len(d) : d[n].k = k].v

\* d[key] = value: a new key goes last, an old key keeps its place
dict_set(d, k, v) ==
    IF dict_has(d, k)
    THEN LET n == CHOOSE n \in 1..Len(d) : d[n].k = k
         IN  SubSeq(d, 1, n - 1) \o <<[k |-> k, v |-> v]>>
                 \o SubSeq(d, n + 1, Len(d))
    ELSE Append(d, [k |-> k, v |-> v])

\* x in xs for a list
in_list(xs, x) == \E n \in 1..Len(xs) : xs[n] = x

\* d1 == d2 for dicts: the same entries, in any order
dict_eq(d1, d2) ==
    {d1[n] : n \in 1..Len(d1)} = {d2[n] : n \in 1..Len(d2)}

\* l1 == l2 for lists of dicts
records_eq(l1, l2) ==
    /\ Len(l1) = Len(l2)
    /\ \A n \in 1..Len(l1) : dict_eq(l1[n], l2[n])

\* doc1 == doc2 for Documents
document_eq(d1, d2) ==
    /\ dict_eq(d1.header, d2.header)
    /\ records_eq(d1.terms, d2.terms)
    /\ d1.has_typedefs = d2.has_typedefs
    /\ records_eq(d1.typedefs, d2.typedefs)

K_id == <<"i", "d">>
K_name == <<"n", "a", "m", "e">>
K_is_a == <<"i", "s", "_", "a">>

-----------------------------------------------------------------------------
(* obo_parser.py: OBOFileParser *)

TermMarker == <<"[", "T", "e", "r", "m", "]">>
TypedefMarker == <<"[", "T", "y", "p", "e", "d", "e", "f", "]">>

\* the regex \[(?:Term|Typedef)\] matches s at position n
marker_at(s, n) ==
    \/ n + 5 <= Len(s) /\ SubSeq(s, n, n + 5) = TermMarker
    \/ n + 8 <= Len(s) /\ SubSeq(s, n, n + 8) = TypedefMarker

marker_len(s, n) ==
    IF n + 5 <= Len(s) /\ SubSeq(s, n, n + 5) = TermMarker THEN 6 ELSE 9

has_marker(s) == \E n \in 1..Len(s) : marker_at(s, n)

first_marker(s) ==
    CHOOSE n \in 1..Len(s) :
        marker_at(s, n) /\ \A m \in 1..(n - 1) : ~marker_at(s, m)

\* re.split(r'\[(?:Term|Typedef)\]', content)
RECURSIVE re_split(_)
re_split(s) ==
    IF ~has_marker(s)
    THEN <<s>>
    ELSE LET n == first_marker(s)
         IN  <<SubSeq(s, 1, n - 1)>>
                 \o re_split(SubSeq(s, n + marker_len(s, n), Len(s)))

\* re.findall(r'\[(?:Term|Typedef)\]', content)
RECURSIVE re_findall(_)
re_findall(s) ==
    IF ~has_marker(s)
    THEN <<>>
    ELSE LET n == first_marker(s)
         IN  <<SubSeq(s, n, n + marker_len(s, n) - 1)>>
                 \o re_findall(SubSeq(s, n + marker_len(s, n), Len(s)))

\* number of leading characters of s that are in set
RECURSIVE span(_, _)
span(s, set) ==
    IF s # <<>> /\ Head(s) \in set THEN 1 + span(Tail(s), set) ELSE 0

SBOPrefix == <<"S", "B", "O", ":">>

\* re.match(r'(SBO:\d+)\s*!\s*(.*)', value): the match and its two groups
re_match_is_a(value) ==
    LET nd == IF startswith(value, SBOPrefix)
              THEN span(SubSeq(value, 5, Len(value)), Digits)
              ELSE 0
        after_id == SubSeq(value, 5 + nd, Len(value))
        at_bang == lstrip(after_id)
        ok == /\ startswith(value, SBOPrefix)
              /\ nd >= 1
              /\ at_bang # <<>>
              /\ Head(at_bang) = "!"
    IN  IF ok
        THEN [matched |-> TRUE,
              group1 |-> SubSeq(value, 1, 4 + nd),
              group2 |-> split(lstrip(Tail(at_bang)), "\n")[1]]
        ELSE [matched |-> FALSE, group1 |-> <<>>, group2 |-> <<>>]

\* list.append on the list stored under key (created empty when absent)
append_to(parsed, key, item) ==
    IF dict_has(parsed, key)
    THEN dict_set(parsed, key, List(Append(dict_get(parsed, key).items, item)))
    ELSE dict_set(parsed, key, List(<<item>>))

\* a variant that keeps each is_a value once
_handle_is_a_field_unique(parsed, key, value) ==
    LET match == re_match_is_a(value)
        item == IF match.matched THEN Ref(match.group1, match.group2)
                ELSE Str(value)
    IN  IF dict_has(parsed, key) /\ in_list(dict_get(parsed, key).items, item)
        THEN parsed
        ELSE append_to(parsed, key, item)

_handle_is_a_field(parsed, key, value) ==
    LET match == re_match_is_a(value)
    IN  IF match.matched
        THEN append_to(parsed, key, Ref(match.group1, match.group2))
        ELSE append_to(parsed, key, Str(value))

\* a variant that promotes to a list but drops the list it already has
_handle_regular_field_repromote(parsed, key, value) ==
    IF dict_has(parsed, key)
    THEN LET old == dict_get(parsed, key)
             as_list == IF isinstance_list(old)
                        THEN <<old.items[Len(old.items)]>>
                        ELSE <<old>>
         IN  dict_set(parsed, key, List(Append(as_list, Str(value))))
    ELSE dict_set(parsed, key, Str(value))

_handle_regular_field(parsed, key, value) ==
    IF dict_has(parsed, key)
    THEN LET old == dict_get(parsed, key)
             as_list == IF isinstance_list(old) THEN old.items ELSE <<old>>
         IN  dict_set(parsed, key, List(Append(as_list, Str(value))))
    ELSE dict_set(parsed, key, Str(value))

\* _parse_header: the body of the loop over header_part.split('\n')
parse_header_line(hdr, raw) ==
    LET ln == rstrip(raw)
    IN  IF strip(ln) # <<>> /\ contains(ln, ":")
        THEN LET kv == split_colon(ln)
             IN  dict_set(hdr, strip(kv[1]), Str(lstrip(kv[2])))
        ELSE hdr

RECURSIVE parse_header_lines(_, _)
parse_header_lines(hdr, lines) ==
    IF lines = <<>> THEN hdr
    ELSE parse_header_lines(parse_header_line(hdr, Head(lines)), Tail(lines))

_parse_header(header_part) ==
    parse_header_lines(<<>>, split(header_part, "\n"))

\* _parse_section, first loop: the lines up to a line that is a marker
is_marker_line(ln) ==
    /\ startswith(strip(ln), <<"[">>)
    /\ (strip(ln) = TermMarker \/ strip(ln) = TypedefMarker)

RECURSIVE until_marker_line(_)
until_marker_line(lines) ==
    IF lines = <<>> \/ is_marker_line(rstrip_nl(Head(lines)))
    THEN <<>>
    ELSE <<rstrip_nl(Head(lines))>> \o until_marker_line(Tail(lines))

collect_section_lines(section_content) ==
    until_marker_line(split(section_content, "\n"))

\* a variant that does not skip the lines without a colon
parse_section_line_any(parsed, raw) ==
    LET ln == rstrip_nl(raw)
    IN  IF strip(ln) # <<>>
        THEN LET kv == IF contains(ln, ":") THEN split_colon(ln)
                       ELSE <<ln, <<>> >>
                 key == strip(kv[1])
                 value == lstrip(kv[2])
             IN  IF key = K_is_a
                 THEN _handle_is_a_field(parsed, key, value)
                 ELSE _handle_regular_field(parsed, key, value)
        ELSE parsed

\* _parse_section, second loop: its body for one line
parse_section_line(parsed, raw) ==
    LET ln == rstrip_nl(raw)
    IN  IF strip(ln) # <<>> /\ contains(ln, ":")
        THEN LET kv == split_colon(ln)
                 key == strip(kv[1])
                 value == lstrip(kv[2])
             IN  IF key = K_is_a
                 THEN _handle_is_a_field(parsed, key, value)
                 ELSE _handle_regular_field(parsed, key, value)
        ELSE parsed

RECURSIVE parse_section_lines(_, _)
parse_section_lines(parsed, lines) ==
    IF lines = <<>> THEN parsed
    ELSE parse_section_lines(parse_section_line(parsed, Head(lines)),
                             Tail(lines))

_parse_section(section_content) ==
    parse_section_lines(<<>>, collect_section_lines(section_content))

\* a variant that keeps the record of an empty section
add_section_any(acc, section_type, parsed) ==
    IF section_type = TermMarker
    THEN [acc EXCEPT !.terms = Append(@, parsed)]
    ELSE IF section_type = TypedefMarker
    THEN [acc EXCEPT !.typedefs = Append(@, parsed)]
    ELSE acc

\* parse_obo_file: what one pass of the loop over sections[1:] adds
add_section(acc, section_type, parsed) ==
    IF parsed = <<>> THEN acc
    ELSE IF section_type = TermMarker
    THEN [acc EXCEPT !.terms = Append(@, parsed)]
    ELSE IF section_type = TypedefMarker
    THEN [acc EXCEPT !.typedefs = Append(@, parsed)]
    ELSE acc

RECURSIVE parse_sections(_, _, _, _)
parse_sections(acc, secs, marks, n) ==
    IF n >= Len(secs) - 1 \/ n >= Len(marks) THEN acc
    ELSE parse_sections(
             add_section(acc, marks[n + 1], _parse_section(secs[n + 2])),
             secs, marks, n + 1)

\* the dict parse_obo_file returns
make_result(hdr, ts, tds) ==
    [header |-> hdr, terms |-> ts,
     has_typedefs |-> (tds # <<>>), typedefs |-> tds]

\* parse_obo_file as a function of the file's text
parse_obo_file(text) ==
    LET secs == re_split(text)
        marks == re_findall(text)
        acc == parse_sections([terms |-> <<>>, typedefs |-> <<>>],
                              secs, marks, 0)
    IN  make_result(_parse_header(strip(secs[1])), acc.terms, acc.typedefs)

-----------------------------------------------------------------------------
(* file_converter.py: FileConverter *)

K_comment == <<"c", "o", "m", "m", "e", "n", "t">>
K_relationship == <<"r", "e", "l", "a", "t", "i", "o", "n", "s", "h", "i", "p">>
K_def == <<"d", "e", "f">>
K_synonym == <<"s", "y", "n", "o", "n", "y", "m">>
K_xref == <<"x", "r", "e", "f">>
K_is_transitive == <<"i", "s", "_", "t", "r", "a", "n", "s", "i", "t", "i", "v", "e">>
K_is_symmetric == <<"i", "s", "_", "s", "y", "m", "m", "e", "t", "r", "i", "c">>
K_is_asymmetric == <<"i", "s", "_", "a", "s", "y", "m", "m", "e", "t", "r", "i", "c">>
K_is_reflexive == <<"i", "s", "_", "r", "e", "f", "l", "e", "x", "i", "v", "e">>

\* config.obo_field_order and config.typedef_field_order: the lists of
\* config.json, which are the lists github_file_updater.py hard-codes
obo_field_order ==
    <<K_id, K_name, K_comment, K_is_a, K_relationship, K_def, K_synonym,
      K_xref>>
typedef_field_order ==
    <<K_id, K_name, K_is_transitive, K_is_symmetric, K_is_asymmetric,
      K_is_reflexive>>

\* f"{key}: {value}"
key_value_line(key, text) == key \o <<":", " ">> \o text

RECURSIVE write_header_fields(_, _)
write_header_fields(hdr, out) ==
    IF hdr = <<>> THEN out
    ELSE write_header_fields(
             Tail(hdr),
             Append(out, key_value_line(Head(hdr).k, Head(hdr).v.s)))

\* a variant that writes the empty line after an empty header too
_write_header_blank(hdr, out) ==
    Append(write_header_fields(hdr, out), <<>>)

_write_header(hdr, out) ==
    LET written == write_header_fields(hdr, out)
    IN  IF hdr # <<>> THEN Append(written, <<>>) ELSE written

\* _write_field, the loop over a list value
RECURSIVE write_items(_, _, _)
write_items(field, items, out) ==
    IF items = <<>> THEN out
    ELSE LET v == Head(items)
             text == IF field = K_is_a /\ v.tag = "ref"
                     THEN v.id \o <<" ", "!", " ">> \o v.name
                     ELSE v.s
         IN  write_items(field, Tail(items),
                         Append(out, key_value_line(field, text)))

_write_field(field, value, out) ==
    IF isinstance_list(value)
    THEN write_items(field, value.items, out)
    ELSE Append(out, key_value_line(field, value.s))

\* _write_fields_in_order, first loop: the fields of field_order
RECURSIVE write_ordered(_, _, _)
write_ordered(rec, order, out) ==
    IF order = <<>> THEN out
    ELSE write_ordered(
             rec, Tail(order),
             IF dict_has(rec, Head(order))
             THEN _write_field(Head(order), dict_get(rec, Head(order)),
                               out)
             ELSE out)

\* _write_fields_in_order, second loop: the fields not in field_order
RECURSIVE write_remaining(_, _, _)
write_remaining(entries, field_order, out) ==
    IF entries = <<>> THEN out
    ELSE write_remaining(
             Tail(entries), field_order,
             IF ~in_list(field_order, Head(entries).k)
             THEN _write_field(Head(entries).k, Head(entries).v, out)
             ELSE out)

\* a variant that writes the fields in the record's own order
_write_fields_as_stored(rec, field_order, out) ==
    write_remaining(rec, <<>>, out)

_write_fields_in_order(rec, field_order, out) ==
    write_remaining(rec, field_order,
                    write_ordered(rec, field_order, out))

\* _write_terms and _write_typedefs: marker, fields, empty line per record
RECURSIVE write_records(_, _, _, _)
write_records(records, marker, field_order, out) ==
    IF records = <<>> THEN out
    ELSE write_records(
             Tail(records), marker, field_order,
             Append(_write_fields_in_order(Head(records), field_order,
                                           Append(out, marker)),
                    <<>>))

_write_terms(ts, out) ==
    write_records(ts, TermMarker, obo_field_order, out)

_write_typedefs(tds, out) ==
    write_records(tds, TypedefMarker, typedef_field_order, out)

\* a variant that ends every written text with one more newline
_write_to_file_newline(lines) ==
    IF lines # <<>> THEN join_nl(lines) \o <<"\n">> ELSE <<"\n">>

\* _write_to_file: the text written to obo_file
_write_to_file(out) ==
    IF out # <<>>
    THEN IF out[Len(out)] # <<>>
         THEN join_nl(out) \o <<"\n">>
         ELSE join_nl(out)
    ELSE <<"\n">>

\* data.get('typedefs', [])
get_typedefs(doc) == IF doc.has_typedefs THEN doc.typedefs ELSE <<>>

\* convert_json_to_obo, lines 23-32: obo_lines when _write_to_file is called
emitted_lines(doc) ==
    _write_typedefs(get_typedefs(doc),
        _write_terms(doc.terms, _write_header(doc.header, <<>>)))

\* convert_json_to_obo: the text written for the Document of json_file
convert_json_to_obo(doc) == _write_to_file(emitted_lines(doc))

-----------------------------------------------------------------------------
(* github_file_updater.py: the module-level parse_obo_file and              *)
(* convert_json_to_obo, the functions GitHubFileUpdater calls               *)

\* parse_obo_file, lines 776-806: the body of the second loop for one
\* line, with its own branch for the key 'relationship'
updater_parse_section_line(parsed, raw) ==
    LET ln == rstrip_nl(raw)
    IN  IF strip(ln) # <<>> /\ contains(ln, ":")
        THEN LET kv == split_colon(ln)
                 key == strip(kv[1])
                 value == lstrip(kv[2])
             IN  IF key = K_is_a
                 THEN _handle_is_a_field(parsed, key, value)
                 ELSE IF key = K_relationship
                 THEN append_to(parsed, key, Str(value))
                 ELSE _handle_regular_field(parsed, key, value)
        ELSE parsed

RECURSIVE updater_parse_section_lines(_, _)
updater_parse_section_lines(parsed, lines) ==
    IF lines = <<>> THEN parsed
    ELSE updater_parse_section_lines(
             updater_parse_section_line(parsed, Head(lines)), Tail(lines))

\* parse_obo_file, lines 761-806: the record of one section
updater_parse_section(section_content) ==
    updater_parse_section_lines(<<>>,
                                collect_section_lines(section_content))

RECURSIVE updater_parse_sections(_, _, _, _)
updater_parse_sections(acc, secs, marks, n) ==
    IF n >= Len(secs) - 1 \/ n >= Len(marks) THEN acc
    ELSE updater_parse_sections(
             add_section(acc, marks[n + 1],
                         updater_parse_section(secs[n + 2])),
             secs, marks, n + 1)

\* the module-level parse_obo_file as a function of the file's text
updater_parse_obo_file(text) ==
    LET secs == re_split(text)
        marks == re_findall(text)
        acc == updater_parse_sections([terms |-> <<>>, typedefs |-> <<>>],
                                      secs, marks, 0)
    IN  make_result(_parse_header(strip(secs[1])), acc.terms, acc.typedefs)

\* f"{v}" of a str, or of the dict an is_a line was parsed into (texts
\* without quotes and backslashes, which repr writes between single quotes)
format_value(v) ==
    IF v.tag = "ref"
    THEN <<"{", "'", "i", "d", "'", ":", " ", "'">> \o v.id
         \o <<"'", ",", " ", "'", "n", "a", "m", "e", "'", ":", " ", "'">>
         \o v.name \o <<"'", "}">>
    ELSE v.s

\* convert_json_to_obo, lines 856-864 and 869-873: one field; only the
\* loop over field_order of a term writes an is_a dict as "id ! name"
RECURSIVE updater_write_items(_, _, _, _)
updater_write_items(field, items, reconstruct, out) ==
    IF items = <<>> THEN out
    ELSE LET v == Head(items)
             text == IF reconstruct /\ field = K_is_a /\ v.tag = "ref"
                     THEN v.id \o <<" ", "!", " ">> \o v.name
                     ELSE format_value(v)
         IN  updater_write_items(field, Tail(items), reconstruct,
                                 Append(out, key_value_line(field, text)))

updater_write_field(field, value, reconstruct, out) ==
    IF isinstance_list(value)
    THEN updater_write_items(field, value.items, reconstruct, out)
    ELSE Append(out, key_value_line(field, format_value(value)))

\* lines 853-864 and 886-893: the fields of the order list
RECURSIVE updater_write_ordered(_, _, _, _)
updater_write_ordered(rec, order, reconstruct, out) ==
    IF order = <<>> THEN out
    ELSE updater_write_ordered(
             rec, Tail(order), reconstruct,
             IF dict_has(rec, Head(order))
             THEN updater_write_field(Head(order),
                                      dict_get(rec, Head(order)),
                                      reconstruct, out)
             ELSE out)

\* lines 867-873 and 896-902: the fields not in the order list
RECURSIVE updater_write_remaining(_, _, _)
updater_write_remaining(entries, field_order, out) ==
    IF entries = <<>> THEN out
    ELSE updater_write_remaining(
             Tail(entries), field_order,
             IF ~in_list(field_order, Head(entries).k)
             THEN updater_write_field(Head(entries).k, Head(entries).v,
                                      FALSE, out)
             ELSE out)

\* lines 846-875 and 879-904: marker, fields, empty line per record
RECURSIVE updater_write_records(_, _, _, _, _)
updater_write_records(records, marker, field_order, reconstruct, out) ==
    IF records = <<>> THEN out
    ELSE updater_write_records(
             Tail(records), marker, field_order, reconstruct,
             Append(updater_write_remaining(
                        Head(records), field_order,
                        updater_write_ordered(Head(records), field_order,
                                              reconstruct,
                                              Append(out, marker))),
                    <<>>))

\* lines 835-904: obo_lines when the file is written; the empty line
\* after the header is written for an empty header too
updater_emitted_lines(doc) ==
    updater_write_records(
        get_typedefs(doc), TypedefMarker, typedef_field_order, FALSE,
        updater_write_records(
            doc.terms, TermMarker, obo_field_order, TRUE,
            Append(write_header_fields(doc.header, <<>>), <<>>)))

\* the module-level convert_json_to_obo, lines 907-913: the text written;
\* a newline follows the joined lines whatever the last line is
updater_convert_json_to_obo(doc) ==
    LET out == updater_emitted_lines(doc)
    IN  IF out # <<>> THEN join_nl(out) \o <<"\n">> ELSE join_nl(out)

-----------------------------------------------------------------------------
(* file_comparator.py: FileComparator *)

\* _compare_headers, first loop: the items of new_header
RECURSIVE compare_new_items(_, _, _)
compare_new_items(old_header, new_items, changes) ==
    IF new_items = <<>> THEN changes
    ELSE LET key == Head(new_items).k
             value == Head(new_items).v
         IN  compare_new_items(
                 old_header, Tail(new_items),
                 IF ~dict_has(old_header, key)
                 THEN dict_set(changes, key,
                               [action |-> "added", new_value |-> value])
                 ELSE IF dict_get(old_header, key) # value
                 THEN dict_set(changes, key,
                               [action |-> "updated",
                                old_value |-> dict_get(old_header, key),
                                new_value |-> value])
                 ELSE changes)

\* _compare_headers, second loop: the items of old_header
RECURSIVE compare_old_items(_, _, _)
compare_old_items(old_items, new_header, changes) ==
    IF old_items = <<>> THEN changes
    ELSE LET key == Head(old_items).k
             value == Head(old_items).v
         IN  compare_old_items(
                 Tail(old_items), new_header,
                 IF ~dict_has(new_header, key)
                 THEN dict_set(changes, key,
                               [action |-> "deleted", old_value |-> value])
                 ELSE changes)

_compare_headers(old_header, new_header) ==
    compare_old_items(old_header, new_header,
                      compare_new_items(old_header, new_header, <<>>))

dict_keys(d) == {d[n].k : n \in 1..Len(d)}

\* term.get(field): the value, or None for an absent field
get_or_none(rec, field) ==
    IF dict_has(rec, field) THEN dict_get(rec, field) ELSE None

\* a variant that classifies by the values alone
_compare_term_fields_by_value(old_term, new_term) ==
    { [k |-> field,
       v |-> [action |-> "updated",
              old_value |-> get_or_none(old_term, field),
              new_value |-> get_or_none(new_term, field)]] :
        field \in { f \in dict_keys(old_term) \union dict_keys(new_term) :
                      get_or_none(old_term, f) # get_or_none(new_term, f) } }

\* a variant that compares lists whatever their order
_compare_term_fields_unordered(old_term, new_term) ==
    LET all_fields == dict_keys(old_term) \union dict_keys(new_term)
        same(a, b) ==
            IF a.tag = "list" /\ b.tag = "list"
            THEN {a.items[n] : n \in 1..Len(a.items)}
                     = {b.items[n] : n \in 1..Len(b.items)}
            ELSE a = b
        change(field) ==
            [action |-> "updated",
             old_value |-> get_or_none(old_term, field),
             new_value |-> get_or_none(new_term, field)]
    IN  { [k |-> field, v |-> change(field)] :
            field \in { f \in all_fields :
                          ~same(get_or_none(old_term, f),
                                get_or_none(new_term, f)) } }

\* _compare_term_fields: the changes dict.  Its insertion order is the
\* iteration order of a Python set, which is unspecified; it is kept here
\* as the set of its items.
_compare_term_fields(old_term, new_term) ==
    LET all_fields == dict_keys(old_term) \union dict_keys(new_term)
        change(field) ==
            LET old_value == get_or_none(old_term, field)
                new_value == get_or_none(new_term, field)
            IN  IF ~dict_has(old_term, field)
                THEN [action |-> "added", new_value |-> new_value]
                ELSE IF ~dict_has(new_term, field)
                THEN [action |-> "deleted", old_value |-> old_value]
                ELSE [action |-> "updated", old_value |-> old_value,
                      new_value |-> new_value]
    IN  { [k |-> field, v |-> change(field)] :
            field \in { f \in all_fields :
                          get_or_none(old_term, f) # get_or_none(new_term, f) } }

\* a dict key must be hashable: a list raises TypeError
hashable(v) == v.tag # "list"

\* the dict comprehension raises for a record whose id is a list
index_raises(records) ==
    \E n \in 1..Len(records) :
        dict_has(records[n], K_id) /\ ~hashable(dict_get(records[n], K_id))

\* a variant that indexes every record, those without id under None
index_by_id_all(records, index) ==
    LET id_of(rec) == IF dict_has(rec, K_id) THEN dict_get(rec, K_id) ELSE None
        RECURSIVE all_from(_, _)
        all_from(recs, acc) ==
            IF recs = <<>> THEN acc
            ELSE all_from(Tail(recs), dict_set(acc, id_of(Head(recs)),
                                               Head(recs)))
    IN  all_from(records, index)

\* {term.get('id'): term for term in terms if 'id' in term}
RECURSIVE index_by_id(_, _)
index_by_id(records, index) ==
    IF records = <<>> THEN index
    ELSE index_by_id(
             Tail(records),
             IF dict_has(Head(records), K_id)
             THEN dict_set(index, dict_get(Head(records), K_id),
                           Head(records))
             ELSE index)

\* a variant without the membership test
only_in_unchecked(index, other) ==
    [n \in 1..Len(index) |-> index[n].v]

\* the records of index whose id is not a key of other, in index order
RECURSIVE only_in(_, _)
only_in(index, other) ==
    IF index = <<>> THEN <<>>
    ELSE IF ~dict_has(other, Head(index).k)
    THEN <<Head(index).v>> \o only_in(Tail(index), other)
    ELSE only_in(Tail(index), other)

\* set(old_dict.keys()) & set(new_dict.keys())
common_ids(old_dict, new_dict) == dict_keys(old_dict) \intersect dict_keys(new_dict)

\* the orders in which a Python set may be iterated
Orders(S) ==
    { o \in [1..Cardinality(S) -> S] :
        \A a, b \in 1..Cardinality(S) : a # b => o[a] # o[b] }

\* _compare_terms, third loop, visiting the common ids in the given order
RECURSIVE updated_terms(_, _, _)
updated_terms(old_dict, new_dict, order) ==
    IF order = <<>> THEN <<>>
    ELSE LET term_id == Head(order)
             old_term == dict_get(old_dict, term_id)
             new_term == dict_get(new_dict, term_id)
             field_changes == _compare_term_fields(old_term, new_term)
         IN  (IF ~dict_eq(old_term, new_term) /\ field_changes # {}
              THEN <<[id |-> term_id, old_term |-> old_term,
                      new_term |-> new_term,
                      field_changes |-> field_changes]>>
              ELSE <<>>)
             \o updated_terms(old_dict, new_dict, Tail(order))

\* a variant whose second loop tests the old index instead of the new one
_compare_terms_old_twice(old_terms, new_terms, order) ==
    LET old_terms_dict == index_by_id(old_terms, <<>>)
        new_terms_dict == index_by_id(new_terms, <<>>)
    IN  [added |-> only_in(new_terms_dict, old_terms_dict),
         deleted |-> only_in(old_terms_dict, old_terms_dict),
         updated |-> updated_terms(old_terms_dict, new_terms_dict, order)]

_compare_terms(old_terms, new_terms, order) ==
    LET old_terms_dict == index_by_id(old_terms, <<>>)
        new_terms_dict == index_by_id(new_terms, <<>>)
    IN  [added |-> only_in(new_terms_dict, old_terms_dict),
         deleted |-> only_in(old_terms_dict, new_terms_dict),
         updated |-> updated_terms(old_terms_dict, new_terms_dict, order)]

\* _compare_typedefs, third loop
RECURSIVE updated_typedefs(_, _, _)
updated_typedefs(old_dict, new_dict, order) ==
    IF order = <<>> THEN <<>>
    ELSE LET typedef_id == Head(order)
             old_typedef == dict_get(old_dict, typedef_id)
             new_typedef == dict_get(new_dict, typedef_id)
             field_changes == _compare_term_fields(old_typedef, new_typedef)
         IN  (IF ~dict_eq(old_typedef, new_typedef) /\ field_changes # {}
              THEN <<[id |-> typedef_id, old_typedef |-> old_typedef,
                      new_typedef |-> new_typedef,
                      field_changes |-> field_changes]>>
              ELSE <<>>)
             \o updated_typedefs(old_dict, new_dict, Tail(order))

_compare_typedefs(old_typedefs, new_typedefs, order) ==
    LET old_typedefs_dict == index_by_id(old_typedefs, <<>>)
        new_typedefs_dict == index_by_id(new_typedefs, <<>>)
    IN  [added |-> only_in(new_typedefs_dict, old_typedefs_dict),
         deleted |-> only_in(old_typedefs_dict, new_typedefs_dict),
         updated |-> updated_typedefs(old_typedefs_dict, new_typedefs_dict,
                                      order)]

\* the iteration orders compare_json_files may meet for two Documents
term_orders(old, new) ==
    Orders(common_ids(index_by_id(old.terms, <<>>),
                      index_by_id(new.terms, <<>>)))
typedef_orders(old, new) ==
    Orders(common_ids(index_by_id(get_typedefs(old), <<>>),
                      index_by_id(get_typedefs(new), <<>>)))

\* compare_json_files raises inside its try block and returns None
compare_raises(old, new) ==
    \/ index_raises(old.terms)
    \/ index_raises(new.terms)
    \/ index_raises(get_typedefs(old))
    \/ index_raises(get_typedefs(new))

\* lines 37-46
make_stats(header_changes, term_changes, typedef_changes) ==
    [terms_added |-> Len(term_changes.added),
     terms_deleted |-> Len(term_changes.deleted),
     terms_updated |-> Len(term_changes.updated),
     typedefs_added |-> Len(typedef_changes.added),
     typedefs_deleted |-> Len(typedef_changes.deleted),
     typedefs_updated |-> Len(typedef_changes.updated),
     header_updated |-> (header_changes # <<>>)]

\* a variant that leaves the typedef lists out
any_changes_terms_only(header_changes, term_changes, typedef_changes) ==
    \/ header_changes # <<>>
    \/ term_changes.added # <<>>
    \/ term_changes.deleted # <<>>
    \/ term_changes.updated # <<>>

\* lines 53-61: any([...])
any_changes(header_changes, term_changes, typedef_changes) ==
    \/ header_changes # <<>>
    \/ term_changes.added # <<>>
    \/ term_changes.deleted # <<>>
    \/ term_changes.updated # <<>>
    \/ typedef_changes.added # <<>>
    \/ typedef_changes.deleted # <<>>
    \/ typedef_changes.updated # <<>>

\* compare_json_files for the Documents of the two files, the common ids
\* being visited in the given orders
compare_json_files(old, new, term_order, typedef_order) ==
    IF compare_raises(old, new) THEN None
    ELSE LET header_changes == _compare_headers(old.header, new.header)
             term_changes == _compare_terms(old.terms, new.terms, term_order)
             typedef_changes ==
                 _compare_typedefs(get_typedefs(old), get_typedefs(new),
                                   typedef_order)
         IN  [header_changes |-> header_changes,
              term_changes |-> term_changes,
              typedef_changes |-> typedef_changes,
              stats |-> make_stats(header_changes, term_changes,
                                   typedef_changes),
              has_changes |-> any_changes(header_changes, term_changes,
                                          typedef_changes)]

-----------------------------------------------------------------------------
(* file_validator.py: FileValidator *)

\* line.split(): the maximal runs of characters that are no whitespace
RECURSIVE split_whitespace(_)
split_whitespace(s) ==
    LET t == lstrip(s)
    IN  IF t = <<>> THEN <<>>
        ELSE LET stops == { n \in 1..Len(t) : t[n] \in Whitespace }
                 n == IF stops = {} THEN Len(t) + 1
                      ELSE CHOOSE k \in stops : \A m \in stops : k <= m
             IN  <<SubSeq(t, 1, n - 1)>>
                     \o split_whitespace(SubSeq(t, n, Len(t)))

\* ' '.join(words)
RECURSIVE join_space(_)
join_space(words) ==
    IF words = <<>> THEN <<>>
    ELSE IF Len(words) = 1 THEN words[1]
    ELSE words[1] \o <<" ">> \o join_space(Tail(words))

\* a variant that keeps the whitespace inside the lines as it is
_extract_semantic_content_verbatim(text) ==
    LET lines == split(text, "\n")
    IN  { strip(lines[n]) :
            n \in { m \in 1..Len(lines) :
                      /\ strip(lines[m]) # <<>>
                      /\ ~startswith(strip(lines[m]), <<"!">>) } }

\* _extract_semantic_content: the set of the meaningful lines of a text
_extract_semantic_content(text) ==
    LET lines == split(text, "\n")
    IN  { join_space(split_whitespace(strip(lines[n]))) :
            n \in { m \in 1..Len(lines) :
                      /\ strip(lines[m]) # <<>>
                      /\ ~startswith(strip(lines[m]), <<"!">>) } }

\* validate_semantic_content: open() raises for a file that is not there,
\* and the except branch returns False
validate_semantic_content(file1, file2) ==
    IF ~file1.exists \/ ~file2.exists THEN FALSE
    ELSE LET content1 == _extract_semantic_content(file1.text)
             content2 == _extract_semantic_content(file2.text)
             missing_in_file2 == content1 \ content2
             extra_in_file2 == content2 \ content1
         IN  missing_in_file2 = {} /\ extra_in_file2 = {}

\* How a run of the external git diff can end: it ran and wrote nothing to
\* stderr ("ran", and "ran_blank" where it paired blank lines rather than
\* the other lines, see git_diff); it wrote its diff and a warning to
\* stderr; it wrote only an error to stderr; subprocess.run raised (an
\* OSError, whose str is never empty).
GitRuns == {"ran", "ran_blank", "warned", "failed", "raised"}

DiffText == <<"d", "i", "f", "f">>
ErrorText == <<"e", "r", "r">>
NoOptions == <<>>
IgnoreSpace == <<"--ignore-all-space", "--ignore-blank-lines">>

\* a line as git diff --ignore-all-space compares it
without_space(s) ==
    LET kept(c) == c \notin Whitespace
    IN  SelectSeq(s, kept)

\* the lines of a text as git diff --ignore-all-space compares them
lines_without_space(text) ==
    LET lines == split(text, "\n")
        all == [n \in 1..Len(lines) |-> without_space(lines[n])]
    IN  IF all[Len(all)] = <<>> THEN SubSeq(all, 1, Len(all) - 1) ELSE all

not_blank(l) == l # <<>>

\* a is b with some elements left out
RECURSIVE is_subsequence(_, _)
is_subsequence(a, b) ==
    IF a = <<>> THEN TRUE
    ELSE IF b = <<>> THEN FALSE
    ELSE IF Head(a) = Head(b) THEN is_subsequence(Tail(a), Tail(b))
    ELSE is_subsequence(a, Tail(b))

\* The stdout of git diff --no-index [options] file1 file2: empty iff git
\* shows no difference. With --ignore-all-space --ignore-blank-lines it
\* shows none when the lines that are not blank are the same ones in the
\* same order and the changes it finds are all blank lines. Where blank
\* lines were both added and removed, git may pair the blank lines instead
\* of the lines between them and then shows those as changed ("ran_blank").
git_diff(text1, text2, options, run) ==
    IF options = NoOptions
    THEN IF text1 = text2 THEN <<>> ELSE DiffText
    ELSE LET lines1 == lines_without_space(text1)
             lines2 == lines_without_space(text2)
         IN  IF SelectSeq(lines1, not_blank) # SelectSeq(lines2, not_blank)
             THEN DiffText
             ELSE IF is_subsequence(lines1, lines2)
                     \/ is_subsequence(lines2, lines1)
             THEN <<>>
             ELSE IF run = "ran_blank" THEN DiffText ELSE <<>>

\* _run_git_diff: (stdout, stderr) of the run; stdout is None when
\* subprocess.run raised
_run_git_diff(file1, file2, options, run) ==
    CASE run \in {"ran", "ran_blank"} ->
             [stdout_none |-> FALSE,
              stdout |-> git_diff(file1.text, file2.text, options, run),
              stderr |-> <<>>]
      [] run = "warned" ->
             [stdout_none |-> FALSE,
              stdout |-> git_diff(file1.text, file2.text, options, run),
              stderr |-> ErrorText]
      [] run = "failed" ->
             [stdout_none |-> FALSE, stdout |-> <<>>, stderr |-> ErrorText]
      [] run = "raised" ->
             [stdout_none |-> TRUE, stdout |-> <<>>, stderr |-> ErrorText]

\* a variant that gives up at the first difference
diff_decides_strict(out) ==
    IF out.stderr # <<>> THEN "return False"
    ELSE IF out.stdout_none \/ out.stdout = <<>> \/ strip(out.stdout) = <<>>
    THEN "return True"
    ELSE "return False"

\* a variant that does not look at stderr
diff_decides_by_stdout(out) ==
    IF out.stdout_none \/ out.stdout = <<>> \/ strip(out.stdout) = <<>>
    THEN "return True"
    ELSE "go on"

\* validate_roundtrip_conversion, lines 34-40 and 47-53: what follows a diff
diff_decides(out) ==
    IF out.stderr # <<>> THEN "return False"
    ELSE IF out.stdout_none \/ out.stdout = <<>> \/ strip(out.stdout) = <<>>
    THEN "return True"
    ELSE "go on"

\* validate_roundtrip_conversion as a function of the two files and of how
\* the two runs of git diff end
validate_roundtrip_conversion(original, reverted, run1, run2) ==
    IF ~original.exists THEN FALSE
    ELSE IF ~reverted.exists THEN FALSE
    ELSE LET first == diff_decides(
                          _run_git_diff(original, reverted, NoOptions, run1))
             second == diff_decides(
                           _run_git_diff(original, reverted, IgnoreSpace, run2))
         IN  IF first # "go on" THEN first = "return True"
             ELSE IF second # "go on" THEN second = "return True"
             ELSE validate_semantic_content(original, reverted)

-----------------------------------------------------------------------------
(* file_validator.py: validate_json_structure, on any value json.load can  *)
(* return: None, a number, a string, a list, a dict.                       *)

Number == [tag |-> "int"]
Dict(entries) == [tag |-> "dict", entries |-> entries]

K_header == <<"h", "e", "a", "d", "e", "r">>
K_terms == <<"t", "e", "r", "m", "s">>
K_typedefs == <<"t", "y", "p", "e", "d", "e", "f", "s">>

\* isinstance(v, dict)
isinstance_dict(v) == v.tag = "dict"

\* type(v).__name__
type_name(v) ==
    CASE v.tag = "None" -> "NoneType"
      [] v.tag = "int" -> "int"
      [] v.tag = "str" -> "str"
      [] v.tag = "list" -> "list"
      [] v.tag = "dict" -> "dict"

\* p in s for two strings
is_substring(p, s) ==
    \E n \in 1..(Len(s) - Len(p) + 1) : SubSeq(s, n, n + Len(p) - 1) = p

\* key in v raises TypeError for None and for a number
in_raises(v) == v.tag \in {"None", "int"}

\* key in v: a key of a dict, an item of a list, a part of a string
key_in(key, v) ==
    CASE v.tag = "dict" -> dict_has(v.entries, key)
      [] v.tag = "list" -> in_list(v.items, Str(key))
      [] v.tag = "str" -> is_substring(key, v.s)

\* len(v) raises TypeError for None and for a number
len_raises(v) == v.tag \in {"None", "int"}

\* len(v)
len(v) ==
    CASE v.tag = "dict" -> Len(v.entries)
      [] v.tag = "list" -> Len(v.items)
      [] v.tag = "str" -> Len(v.s)

\* ValidationResult(success, message, data): self.data = data or {}
ValidationResult(success, message, stats) ==
    [success |-> success, message |-> message, data |-> stats]

\* the except branch, lines 166-170
ErrorDuringValidation(e) ==
    ValidationResult(FALSE, "Error during validation: " \o e, <<>>)

\* lines 132-151: the result for the first term that breaks a rule
term_failure(terms_list, n) ==
    LET term == terms_list[n]
    IN  IF ~isinstance_dict(term)
        THEN ValidationResult(FALSE,
                 "Term " \o ToString(n) \o " is not an object", <<>>)
        ELSE IF ~key_in(K_id, term)
        THEN ValidationResult(FALSE,
                 "Term " \o ToString(n) \o " missing id field", <<>>)
        ELSE ValidationResult(FALSE,
                 "Term " \o ToString(n) \o " missing name field", <<>>)

\* lines 153-164: the statistics and the success result
collect_statistics(value) ==
    LET d == value.entries
        \* data.get('typedefs', [])
        got == IF dict_has(d, K_typedefs) THEN dict_get(d, K_typedefs)
               ELSE List(<<>>)
    IN  IF len_raises(got)
        THEN ErrorDuringValidation("object of type '" \o type_name(got)
                                       \o "' has no len()")
        ELSE ValidationResult(TRUE, "JSON structure validation passed",
                 <<Entry("header_fields", len(dict_get(d, K_header))),
                   Entry("total_terms", len(dict_get(d, K_terms))),
                   Entry("has_typedefs", dict_has(d, K_typedefs)),
                   Entry("typedef_count", len(got))>>)

\* FileValidator.validate_json_structure(data)
validate_json_structure(value) ==
    IF in_raises(value)
    THEN ErrorDuringValidation("argument of type '" \o type_name(value)
                                   \o "' is not iterable")
    ELSE IF ~key_in(K_header, value)
    THEN ValidationResult(FALSE, "Missing required field: header", <<>>)
    ELSE IF ~key_in(K_terms, value)
    THEN ValidationResult(FALSE, "Missing required field: terms", <<>>)
    \* data['header'] raises TypeError for a string and for a list
    ELSE IF value.tag = "str"
    THEN ErrorDuringValidation("string indices must be integers, not 'str'")
    ELSE IF value.tag = "list"
    THEN ErrorDuringValidation(
             "list indices must be integers or slices, not str")
    ELSE IF ~isinstance_dict(dict_get(value.entries, K_header))
    THEN ValidationResult(FALSE, "Header field must be an object", <<>>)
    ELSE IF ~isinstance_list(dict_get(value.entries, K_terms))
    THEN ValidationResult(FALSE, "Terms field must be an array", <<>>)
    ELSE LET terms_list == dict_get(value.entries, K_terms).items
             broken == { n \in 1..Len(terms_list) :
                           \/ ~isinstance_dict(terms_list[n])
                           \/ ~key_in(K_id, terms_list[n])
                           \/ ~key_in(K_name, terms_list[n]) }
         IN  IF broken # {}
             THEN term_failure(terms_list,
                               CHOOSE n \in broken :
                                   \A m \in broken : n <= m)
             ELSE collect_statistics(value)

\* UserFileProcessor._validate_json_structure(data): the same statements,
\* the result a dict with the keys valid, message, stats
_validate_json_structure(value) ==
    LET r == validate_json_structure(value)
    IN  [valid |-> r.success, message |-> r.message, stats |-> r.data]

-----------------------------------------------------------------------------
(* The OBO files given to the parser: up to MaxLines lines, each written    *)
(* from one of the line shapes below and ended by a newline.                *)

MarkerLine(m) == [kind |-> "marker", text |-> m]
\* key ":" lead val trail; lead and trail are blanks, val does not start
\* with a blank
FieldLine(key, lead, val, trail) ==
    [kind |-> "field", key |-> key, lead |-> lead, val |-> val,
     trail |-> trail]
\* "is_a: " id sep name; sep is a "!" with blanks around it
IsALine(id, sep, name) ==
    [kind |-> "is_a", id |-> id, sep |-> sep, name |-> name]
\* a blank line or a line without a colon
NoiseLine(text) == [kind |-> "noise", text |-> text]

K_n == <<"n">>
K_v == <<"v">>
K_w == <<"w">>
Parent == <<"S", "B", "O", ":", "6", "4">>

LinePool ==
    { MarkerLine(TermMarker),
      MarkerLine(TypedefMarker),
      FieldLine(K_n, <<" ">>, <<"x">>, <<" ">>),
      FieldLine(K_n, <<>>, <<"y", ":", "z">>, <<>>),
      FieldLine(<<>>, <<>>, <<>>, <<>>),
      FieldLine(K_is_a, <<" ">>, <<"q">>, <<>>),
      IsALine(Parent, <<" ", "!", " ">>, <<"m", " ">>),
      NoiseLine(<<>>),
      NoiseLine(<<" ", "z">>) }

render_line(l) ==
    CASE l.kind = "marker" -> l.text
      [] l.kind = "field" -> l.key \o <<":">> \o l.lead \o l.val \o l.trail
      [] l.kind = "is_a" -> K_is_a \o <<":", " ">> \o l.id \o l.sep \o l.name
      [] l.kind = "noise" -> l.text

RECURSIVE render(_)
render(ls) ==
    IF ls = <<>> THEN <<>>
    ELSE render_line(Head(ls)) \o <<"\n">> \o render(Tail(ls))

SeqsUpTo(S, n) == UNION {[1..k -> S] : k \in 0..n}

Sources == SeqsUpTo(LinePool, MaxLines)

-----------------------------------------------------------------------------
(* parse_obo_file, one step per loop pass *)

\* a file on disk: whether it exists, its text, the lines it was written from
NoFile == [exists |-> FALSE, written |-> <<>>, text |-> <<>>]

ValidatorIdle ==
    /\ original_file = NoFile
    /\ reverted_file = NoFile
    /\ steps = <<>>
    /\ valid = FALSE

StructureIdle == json_value = None /\ validation = None

PipelineIdle ==
    /\ candidate = None
    /\ disk = {}
    /\ user_data = None
    /\ processed_files = <<>>
    /\ committed = FALSE
    /\ returned = None

ModuleIdle == given = None /\ class_output = None /\ module_output = None

VersionIdle ==
    /\ directory = {}
    /\ found = None
    /\ local_filename = None
    /\ apply_result = None

WorkflowIdle == active_file = None /\ choice_input = None

LaterIdle == ModuleIdle /\ VersionIdle /\ WorkflowIdle

RestIdle == ValidatorIdle /\ StructureIdle /\ PipelineIdle /\ LaterIdle

ConverterIdle == data = None /\ obo_lines = <<>> /\ obo_text = None
ComparatorIdle ==
    old_data = None /\ new_data = None /\ report = None /\ report_rev = None

InitParse ==
    /\ pc = "parse"
    /\ src \in Sources
    /\ content = render(src)
    /\ sections = <<>>
    /\ section_markers = <<>>
    /\ header = <<>>
    /\ terms = <<>>
    /\ typedefs = <<>>
    /\ i = 0
    /\ section_lines = <<>>
    /\ parsed_section = <<>>
    /\ line = NoLine
    /\ result = None
    /\ ConverterIdle
    /\ ComparatorIdle
    /\ RestIdle

\* lines 23-38: read, split at the markers, parse the header
SplitContent ==
    /\ pc = "parse"
    /\ sections' = re_split(content)
    /\ section_markers' = re_findall(content)
    /\ header' = _parse_header(strip(re_split(content)[1]))
    /\ terms' = <<>>
    /\ typedefs' = <<>>
    /\ i' = 0
    /\ pc' = "sections"
    /\ UNCHANGED <<src, content, section_lines, parsed_section, line, result>>
    /\ UNCHANGED <<converterVars, comparatorVars>>
    /\ UNCHANGED restVars

\* lines 40-45 and 75-85: enter the loop body, collect the section's lines
BeginSection ==
    /\ pc = "sections"
    /\ i < Len(sections) - 1
    /\ i < Len(section_markers)
    /\ section_lines' = collect_section_lines(sections[i + 2])
    /\ parsed_section' = <<>>
    /\ line' = NoLine
    /\ pc' = "section"
    /\ UNCHANGED <<src, content, sections, section_markers, header, terms,
                   typedefs, i, result>>
    /\ UNCHANGED <<converterVars, comparatorVars>>
    /\ UNCHANGED restVars

\* lines 88-99: one pass of the loop over section_lines
ParseSectionLine ==
    /\ pc = "section"
    /\ section_lines # <<>>
    /\ parsed_section' = parse_section_line(parsed_section, Head(section_lines))
    /\ line' = rstrip_nl(Head(section_lines))
    /\ section_lines' = Tail(section_lines)
    /\ UNCHANGED <<pc, src, content, sections, section_markers, header, terms,
                   typedefs, i, result>>
    /\ UNCHANGED <<converterVars, comparatorVars>>
    /\ UNCHANGED restVars

\* lines 47-51: keep the non-empty record, go on to the next section
EndSection ==
    /\ pc = "section"
    /\ section_lines = <<>>
    /\ LET acc == add_section([terms |-> terms, typedefs |-> typedefs],
                              section_markers[i + 1], parsed_section)
       IN  terms' = acc.terms /\ typedefs' = acc.typedefs
    /\ i' = i + 1
    /\ pc' = "sections"
    /\ UNCHANGED <<src, content, sections, section_markers, header,
                   section_lines, parsed_section, line, result>>
    /\ UNCHANGED <<converterVars, comparatorVars>>
    /\ UNCHANGED restVars

\* lines 53-61: build and return the Document
ReturnResult ==
    /\ pc = "sections"
    /\ (i >= Len(sections) - 1 \/ i >= Len(section_markers))
    /\ result' = make_result(header, terms, typedefs)
    /\ pc' = "parsed"
    /\ UNCHANGED <<src, content, sections, section_markers, header, terms,
                   typedefs, i, section_lines, parsed_section, line>>
    /\ UNCHANGED <<converterVars, comparatorVars>>
    /\ UNCHANGED restVars

NextParse ==
    \/ SplitContent
    \/ BeginSection
    \/ ParseSectionLine
    \/ EndSection
    \/ ReturnResult

SpecParse == InitParse /\ [][NextParse]_vars

\* the stepwise run returns what parse_obo_file computes
StepwiseAgrees ==
    pc = "parsed" => result = parse_obo_file(content)

-----------------------------------------------------------------------------
(* convert_json_to_obo followed by parse_obo_file on the written file *)


\* Documents as section 3 of the specification describes them
RT_Records ==
    { <<Entry(K_id, Str(<<"A">>)), Entry(K_name, Str(<<"x">>))>>,
      <<Entry(K_name, Str(<<"x", " ">>)), Entry(K_id, Str(<<"A">>))>>,
      <<Entry(K_n, List(<<Str(<<"x">>), Str(<<"y", ":", "z">>)>>)),
        Entry(K_id, Str(<<"B">>))>>,
      <<Entry(K_id, Str(<<"B">>)),
        Entry(K_is_a, List(<<Ref(Parent, <<"m">>), Str(<<"q">>)>>))>>,
      <<Entry(K_w, Str(<<"x">>)), Entry(K_id, Str(<<"A">>)),
        Entry(K_v, Str(<<"y">>))>> }

RT_Headers ==
    { <<>>,
      <<Entry(K_n, Str(<<"x">>))>>,
      <<Entry(K_n, Str(<<"x", " ">>))>>,
      <<Entry(K_name, Str(<<"1", ".", "2">>)), Entry(K_n, Str(<<>>))>> }

RT_Typedefs ==
    { <<>> } \union { <<r>> : r \in RT_Records }

RT_Documents ==
    { [header |-> h, terms |-> ts, has_typedefs |-> (tds # <<>>),
       typedefs |-> tds] :
        h \in RT_Headers, ts \in SeqsUpTo(RT_Records, MaxDocTerms),
        tds \in RT_Typedefs }

InitRoundTrip ==
    /\ pc = "convert"
    /\ data \in RT_Documents
    /\ obo_lines = <<>>
    /\ obo_text = None
    /\ src = <<>>
    /\ content = <<>>
    /\ sections = <<>>
    /\ section_markers = <<>>
    /\ header = <<>>
    /\ terms = <<>>
    /\ typedefs = <<>>
    /\ i = 0
    /\ section_lines = <<>>
    /\ parsed_section = <<>>
    /\ line = NoLine
    /\ result = None
    /\ ComparatorIdle
    /\ RestIdle

\* convert_json_to_obo(json_file, obo_file)
ConvertJsonToObo ==
    /\ pc = "convert"
    /\ obo_lines' = emitted_lines(data)
    /\ obo_text' = convert_json_to_obo(data)
    /\ pc' = "written"
    /\ UNCHANGED <<data, parserVars, comparatorVars>>
    /\ UNCHANGED restVars

\* parse_obo_file(obo_file), lines 23-24: read the file just written
ReadWritten ==
    /\ pc = "written"
    /\ content' = obo_text
    /\ pc' = "parse"
    /\ UNCHANGED <<src, sections, section_markers, header, terms, typedefs,
                   i, section_lines, parsed_section, line, result>>
    /\ UNCHANGED <<converterVars, comparatorVars>>
    /\ UNCHANGED restVars

NextRoundTrip ==
    \/ ConvertJsonToObo
    \/ ReadWritten
    \/ SplitContent
    \/ BeginSection
    \/ ParseSectionLine
    \/ EndSection
    \/ ReturnResult

SpecRoundTrip == InitRoundTrip /\ [][NextRoundTrip]_vars

-----------------------------------------------------------------------------
(* _write_to_file on a list of lines, next to the converter's own calls *)

ParserIdle ==
    /\ src = <<>>
    /\ content = <<>>
    /\ sections = <<>>
    /\ section_markers = <<>>
    /\ header = <<>>
    /\ terms = <<>>
    /\ typedefs = <<>>
    /\ i = 0
    /\ section_lines = <<>>
    /\ parsed_section = <<>>
    /\ line = NoLine
    /\ result = None

\* lines a caller may hand over: a blank one, a marker, a field line
EmittedLines == { <<>>, TermMarker, key_value_line(K_n, <<"x">>) }

InitWriteToFile ==
    /\ pc = "write_to_file"
    /\ obo_lines \in SeqsUpTo(EmittedLines, MaxEmitted)
    /\ data = None
    /\ obo_text = None
    /\ ParserIdle
    /\ ComparatorIdle
    /\ RestIdle

\* _write_to_file(obo_lines, obo_file)
WriteToFile ==
    /\ pc = "write_to_file"
    /\ obo_text' = _write_to_file(obo_lines)
    /\ pc' = "file_written"
    /\ UNCHANGED <<data, obo_lines, parserVars, comparatorVars>>
    /\ UNCHANGED restVars

InitSerialize == InitRoundTrip \/ InitWriteToFile

NextSerialize ==
    \/ NextRoundTrip
    \/ WriteToFile

SpecSerialize == InitSerialize /\ [][NextSerialize]_vars

-----------------------------------------------------------------------------
(* validate_roundtrip_conversion and validate_semantic_content on two files *)

\* a line of a validated file: its text, what it says (the text with the
\* blanks at its ends removed and every other run of blanks written as one
\* space; nothing for a blank line and for a comment), and its text without
\* any blank
TextLine(text, says, bare) == [text |-> text, says |-> says, bare |-> bare]

TextLines ==
    { TextLine(<<"i", ":", " ", "A">>, <<"i", ":", " ", "A">>,
               <<"i", ":", "A">>),
      TextLine(<<"n", ":", " ", "x">>, <<"n", ":", " ", "x">>,
               <<"n", ":", "x">>),
      TextLine(<<" ", "n", ":", " ", "\t", "x", " ">>, <<"n", ":", " ", "x">>,
               <<"n", ":", "x">>),
      TextLine(<<"n", ":", "x">>, <<"n", ":", "x">>, <<"n", ":", "x">>),
      TextLine(<<>>, <<>>, <<>>),
      TextLine(<<"!", " ", "c">>, <<>>, <<"!", "c">>) }

RECURSIVE render_text(_)
render_text(ls) ==
    IF ls = <<>> THEN <<>>
    ELSE Head(ls).text \o <<"\n">> \o render_text(Tail(ls))

File(ls) == [exists |-> TRUE, written |-> ls, text |-> render_text(ls)]

ValidatedFiles ==
    {NoFile} \union { File(ls) : ls \in SeqsUpTo(TextLines, MaxTextLines) }

InitValidate ==
    /\ pc \in {"validate_roundtrip", "validate_semantic"}
    /\ original_file \in ValidatedFiles
    /\ reverted_file \in ValidatedFiles
    /\ steps = <<>>
    /\ valid = FALSE
    /\ ParserIdle
    /\ ConverterIdle
    /\ ComparatorIdle
    /\ StructureIdle
    /\ PipelineIdle
    /\ LaterIdle

ValidatorFrame ==
    UNCHANGED <<parserVars, converterVars, comparatorVars, structureVars,
                pipelineVars, laterVars>>

Return(value) ==
    /\ valid' = value
    /\ pc' = "validated"

\* decision after a diff: return, or go on with the next comparison
AfterDiff(decision, next) ==
    CASE decision = "return True" -> Return(TRUE)
      [] decision = "return False" -> Return(FALSE)
      [] decision = "go on" -> valid' = valid /\ pc' = next

\* lines 24-30: both files must exist
CheckFilesExist ==
    /\ pc = "validate_roundtrip"
    /\ IF original_file.exists /\ reverted_file.exists
       THEN valid' = valid /\ pc' = "exact"
       ELSE Return(FALSE)
    /\ UNCHANGED <<original_file, reverted_file, steps>>
    /\ ValidatorFrame

\* lines 33-40: git diff --no-index
ExactDiff ==
    /\ pc = "exact"
    /\ \E run \in GitRuns :
           /\ steps' = Append(steps, [strategy |-> "exact", run |-> run])
           /\ AfterDiff(diff_decides(_run_git_diff(original_file,
                                                   reverted_file, NoOptions,
                                                   run)),
                        "whitespace")
    /\ UNCHANGED <<original_file, reverted_file>>
    /\ ValidatorFrame

\* lines 44-53: git diff --no-index --ignore-all-space --ignore-blank-lines
WhitespaceDiff ==
    /\ pc = "whitespace"
    /\ \E run \in GitRuns :
           /\ steps' = Append(steps, [strategy |-> "whitespace", run |-> run])
           /\ AfterDiff(diff_decides(_run_git_diff(original_file,
                                                   reverted_file, IgnoreSpace,
                                                   run)),
                        "semantic")
    /\ UNCHANGED <<original_file, reverted_file>>
    /\ ValidatorFrame

\* lines 57-64: validate_semantic_content decides
SemanticContent ==
    /\ pc = "semantic"
    /\ steps' = Append(steps, [strategy |-> "semantic", run |-> "ran"])
    /\ Return(validate_semantic_content(original_file, reverted_file))
    /\ UNCHANGED <<original_file, reverted_file>>
    /\ ValidatorFrame

\* validate_semantic_content(file1, file2), called on its own
ValidateSemanticContent ==
    /\ pc = "validate_semantic"
    /\ valid' = validate_semantic_content(original_file, reverted_file)
    /\ pc' = "compared_semantic"
    /\ UNCHANGED <<original_file, reverted_file, steps>>
    /\ ValidatorFrame

NextValidate ==
    \/ CheckFilesExist
    \/ ExactDiff
    \/ WhitespaceDiff
    \/ SemanticContent
    \/ ValidateSemanticContent

SpecValidate == InitValidate /\ [][NextValidate]_vars

\* the stepwise run returns what validate_roundtrip_conversion computes
ValidateStepwiseAgrees ==
    pc = "validated" =>
        \E run1, run2 \in GitRuns :
            /\ Len(steps) >= 1 => steps[1].run = run1
            /\ Len(steps) >= 2 => steps[2].run = run2
            /\ valid = validate_roundtrip_conversion(original_file,
                                                     reverted_file, run1, run2)

\* what the lines a file was written from say, blank lines and comments
\* left out
said(file) ==
    { file.written[n].says : n \in 1..Len(file.written) } \ {<<>>}

\* how many lines of a file, blank lines and comments left out, read b
\* when their blanks are taken out
occurrences(file, b) ==
    Cardinality({ n \in 1..Len(file.written) :
                    /\ file.written[n].says # <<>>
                    /\ file.written[n].bare = b })

\* the lines of a file that are neither blank nor comments, without blanks
content_lines(file) ==
    { file.written[n].bare :
        n \in { m \in 1..Len(file.written) : file.written[m].says # <<>> } }

BothExist == original_file.exists /\ reverted_file.exists

\* no run of git diff reported an error
NoGitError == \A k \in 1..Len(steps) : steps[k].run \in {"ran", "ran_blank"}

\* the comparison of step k finds the two files alike
succeeded(k) ==
    CASE steps[k].strategy = "exact" ->
             original_file.text = reverted_file.text
      [] steps[k].strategy = "whitespace" ->
             git_diff(original_file.text, reverted_file.text, IgnoreSpace,
                      steps[k].run) = <<>>
      [] steps[k].strategy = "semantic" ->
             said(original_file) = said(reverted_file)

Strategies == <<"exact", "whitespace", "semantic">>

\* C15: when both files exist and git diff reports no error, the strategies
\* run are exact, whitespace-insensitive, semantic, in that order, up to the
\* first that succeeds; the result is true exactly when the last one run
\* succeeded, no strategy runs after a success, and the result is false only
\* after all three have run and failed.
C15_Escalation ==
    (pc = "validated" /\ BothExist /\ NoGitError) =>
        /\ Len(steps) \in 1..3
        /\ \A k \in 1..Len(steps) : steps[k].strategy = Strategies[k]
        /\ \A k \in 1..(Len(steps) - 1) : ~succeeded(k)
        /\ valid = succeeded(Len(steps))
        /\ ~valid => Len(steps) = 3

\* the whitespace-insensitive comparison succeeded after the exact one had
\* failed, and the semantic comparison, which would have failed, did not run
C15_Witness ==
    /\ pc = "validated"
    /\ NoGitError
    /\ original_file.written = <<TextLine(<<"n", ":", " ", "x">>,
                                          <<"n", ":", " ", "x">>,
                                          <<"n", ":", "x">>)>>
    /\ reverted_file.written = <<TextLine(<<"n", ":", "x">>, <<"n", ":", "x">>,
                                          <<"n", ":", "x">>)>>
    /\ Len(steps) = 2
    /\ valid
    /\ said(original_file) # said(reverted_file)

\* C16: a missing file gives false before any comparison; a run of git diff
\* that cannot be launched or writes to its error stream, in the exact or in
\* the whitespace-insensitive step, gives false and is the last step run.
\* Every run of the validator ends with a boolean result.
C16_ErrorsFail ==
    pc = "validated" =>
        /\ valid \in BOOLEAN
        /\ ~BothExist => (~valid /\ steps = <<>>)
        /\ \A k \in 1..Len(steps) :
               steps[k].run \in {"warned", "failed", "raised"} =>
                   /\ steps[k].strategy \in {"exact", "whitespace"}
                   /\ ~valid
                   /\ k = Len(steps)

\* git diff could not be launched in the whitespace-insensitive step, for
\* two files the semantic comparison would have accepted
C16_Witness ==
    /\ pc = "validated"
    /\ BothExist
    /\ Len(steps) = 2
    /\ steps[2].run = "raised"
    /\ said(original_file) = said(reverted_file)
    /\ said(original_file) # {}
    /\ ~valid

\* C17: validate_semantic_content is true exactly when both files can be
\* read and their lines, blank lines and comments dropped, trimmed and with
\* every run of blanks written as one space, form the same set; so
\* whatever the order and the repetitions of the lines; and it gives the
\* same result with its arguments swapped.
C17_SemanticSets ==
    pc = "compared_semantic" =>
        /\ valid = (BothExist /\ said(original_file) = said(reverted_file))
        /\ valid = validate_semantic_content(reverted_file, original_file)

\* two files with the same two lines in another order, one of them written
\* with other blanks
C17_Witness ==
    /\ pc = "compared_semantic"
    /\ BothExist
    /\ Len(original_file.written) = 2
    /\ Len(reverted_file.written) = 2
    /\ Cardinality(said(original_file)) = 2
    /\ original_file.written[1].says = reverted_file.written[2].says
    /\ original_file.written[1].text # reverted_file.written[2].text
    /\ original_file.written[2] = reverted_file.written[1]
    /\ valid

\* C18: when some line occurrence of the original file, repeated lines
\* counted separately, has no counterpart in the reverted file, the
\* validator returns false.
C18_NoContentLoss ==
    (/\ pc = "validated"
     /\ BothExist
     /\ \E b \in content_lines(original_file) :
            occurrences(original_file, b) > occurrences(reverted_file, b))
        => ~valid

\* what does hold: a line that occurs nowhere in the reverted file, however
\* its blanks are written, makes the validator return false
LostLineCaught ==
    (/\ pc = "validated"
     /\ BothExist
     /\ content_lines(original_file) \ content_lines(reverted_file) # {})
        => ~valid

-----------------------------------------------------------------------------
(* compare_json_files on two Documents, in both directions *)

V_x == Str(<<"x">>)
V_y == Str(<<"y">>)
ID_A == Str(<<"A">>)
ID_B == Str(<<"B">>)
ID_T == Str(<<"T">>)

\* term records: equal ones in two field orders, one field changed,
\* another id, no id, and the id of a section with two id lines
CMP_Records ==
    { <<Entry(K_id, ID_A), Entry(K_name, V_x)>>,
      <<Entry(K_name, V_x), Entry(K_id, ID_A)>>,
      <<Entry(K_id, ID_A), Entry(K_name, V_y)>>,
      <<Entry(K_id, ID_B), Entry(K_name, V_x)>>,
      <<Entry(K_name, V_x)>>,
      <<Entry(K_id, List(<<ID_A, ID_B>>))>> }

\* the header and the typedefs of a compared Document
CMP_Rest ==
    { [header |-> <<>>, typedefs |-> <<>>],
      [header |-> <<Entry(K_v, V_x)>>,
       typedefs |-> <<<<Entry(K_id, ID_T),
                        Entry(K_synonym, List(<<V_x, V_y>>))>>>>],
      [header |-> <<Entry(K_v, V_y), Entry(K_w, V_x)>>,
       typedefs |-> <<<<Entry(K_id, ID_T),
                        Entry(K_synonym, List(<<V_y, V_x>>)),
                        Entry(K_name, V_x)>>>>],
      [header |-> <<Entry(K_v, V_x)>>, typedefs |-> <<>>] }

Document(rest, ts) ==
    [header |-> rest.header, terms |-> ts,
     has_typedefs |-> (rest.typedefs # <<>>), typedefs |-> rest.typedefs]

InitDiff ==
    /\ pc = "compare"
    /\ \E old_terms \in SeqsUpTo(CMP_Records, MaxRecords) :
       \E new_terms \in SeqsUpTo(CMP_Records, MaxRecords - Len(old_terms)) :
       \E old_rest \in CMP_Rest, new_rest \in CMP_Rest :
           /\ old_data = Document(old_rest, old_terms)
           /\ new_data = Document(new_rest, new_terms)
    /\ report = None
    /\ report_rev = None
    /\ src = <<>>
    /\ content = <<>>
    /\ sections = <<>>
    /\ section_markers = <<>>
    /\ header = <<>>
    /\ terms = <<>>
    /\ typedefs = <<>>
    /\ i = 0
    /\ section_lines = <<>>
    /\ parsed_section = <<>>
    /\ line = NoLine
    /\ result = None
    /\ ConverterIdle
    /\ RestIdle

\* compare_json_files(old_json_file, new_json_file)
CompareJsonFiles ==
    /\ pc = "compare"
    /\ \E term_order \in term_orders(old_data, new_data) :
       \E typedef_order \in typedef_orders(old_data, new_data) :
           report' = compare_json_files(old_data, new_data, term_order,
                                        typedef_order)
    /\ pc' = "compared"
    /\ UNCHANGED <<old_data, new_data, report_rev, parserVars, converterVars>>
    /\ UNCHANGED restVars

\* compare_json_files(new_json_file, old_json_file): the files swapped
CompareSwapped ==
    /\ pc = "compared"
    /\ \E term_order \in term_orders(new_data, old_data) :
       \E typedef_order \in typedef_orders(new_data, old_data) :
           report_rev' = compare_json_files(new_data, old_data, term_order,
                                            typedef_order)
    /\ pc' = "compared_both"
    /\ UNCHANGED <<old_data, new_data, report, parserVars, converterVars>>
    /\ UNCHANGED restVars

NextDiff ==
    \/ CompareJsonFiles
    \/ CompareSwapped

SpecDiff == InitDiff /\ [][NextDiff]_vars

-----------------------------------------------------------------------------
(* compare_json_files on two Documents that both hold a record with the id *)
(* A, whose field v takes every shape of value a JSON Document can hold;   *)
(* either Document may hold a record without id beside it.                 *)

\* a string, a list in two orders, an object, null
FieldValues ==
    { V_x, V_y, List(<<V_x, V_y>>), List(<<V_y, V_x>>),
      Ref(<<"B">>, <<"m">>), None }

\* the record with the id A: without the field v, or with one of the values
RecordsOfA ==
    { <<Entry(K_id, ID_A)>> }
        \union { <<Entry(K_id, ID_A), Entry(K_v, value)>> :
                   value \in FieldValues }

\* the records without id a Document may hold beside it
WithoutId == { <<>>, <<<<Entry(K_name, V_x)>>>>, <<<<Entry(K_name, V_y)>>>> }

InitRecordDiff ==
    /\ pc = "compare"
    /\ \E old_term \in RecordsOfA, new_term \in RecordsOfA :
       \E old_rest \in WithoutId, new_rest \in WithoutId :
       \E as_typedefs \in BOOLEAN :
           LET old_records == old_rest \o <<old_term>>
               new_records == <<new_term>> \o new_rest
           IN  IF as_typedefs
               THEN /\ old_data = [header |-> <<>>, terms |-> <<>>,
                                   has_typedefs |-> TRUE,
                                   typedefs |-> old_records]
                    /\ new_data = [header |-> <<>>, terms |-> <<>>,
                                   has_typedefs |-> TRUE,
                                   typedefs |-> new_records]
               ELSE /\ old_data = [header |-> <<>>, terms |-> old_records,
                                   has_typedefs |-> FALSE, typedefs |-> <<>>]
                    /\ new_data = [header |-> <<>>, terms |-> new_records,
                                   has_typedefs |-> FALSE, typedefs |-> <<>>]
    /\ report = None
    /\ report_rev = None
    /\ ParserIdle
    /\ ConverterIdle
    /\ RestIdle

SpecRecordDiff == InitRecordDiff /\ [][NextDiff]_vars

-----------------------------------------------------------------------------
(* the module-level functions of github_file_updater.py next to the         *)
(* class-based ones, on the same text and on the same Document              *)

MaxModuleLines == 3  \* lines of an OBO text given to both parsers

\* the lines the texts are written from
ModuleLines ==
    { MarkerLine(TermMarker),
      MarkerLine(TypedefMarker),
      FieldLine(K_id, <<" ">>, <<"A">>, <<>>),
      FieldLine(K_n, <<" ">>, <<"x">>, <<>>),
      FieldLine(K_relationship, <<" ">>, <<"x">>, <<>>),
      IsALine(Parent, <<" ", "!", " ">>, <<"m">>),
      NoiseLine(<<>>) }

ModuleTexts ==
    { render(ls) : ls \in SeqsUpTo(ModuleLines, MaxModuleLines) }

ModuleFrame ==
    UNCHANGED <<parserVars, converterVars, comparatorVars, validatorVars,
                structureVars, pipelineVars, versionVars, workflowVars>>

InitModuleLevel ==
    /\ \/ pc = "class_parse" /\ given \in ModuleTexts
       \/ pc = "class_convert" /\ given \in RT_Documents
    /\ class_output = None
    /\ module_output = None
    /\ ParserIdle
    /\ ConverterIdle
    /\ ComparatorIdle
    /\ ValidatorIdle
    /\ StructureIdle
    /\ PipelineIdle
    /\ VersionIdle
    /\ WorkflowIdle

\* OBOFileParser.parse_obo_file(file_path)
ClassParseOboFile ==
    /\ pc = "class_parse"
    /\ class_output' = parse_obo_file(given)
    /\ pc' = "module_parse"
    /\ UNCHANGED <<given, module_output>>
    /\ ModuleFrame

\* github_file_updater.parse_obo_file(file_path)
ModuleParseOboFile ==
    /\ pc = "module_parse"
    /\ module_output' = updater_parse_obo_file(given)
    /\ pc' = "parsed_both"
    /\ UNCHANGED <<given, class_output>>
    /\ ModuleFrame

\* FileConverter.convert_json_to_obo(json_file, obo_file)
ClassConvertJsonToObo ==
    /\ pc = "class_convert"
    /\ class_output' = convert_json_to_obo(given)
    /\ pc' = "module_convert"
    /\ UNCHANGED <<given, module_output>>
    /\ ModuleFrame

\* github_file_updater.convert_json_to_obo(json_file, obo_file)
ModuleConvertJsonToObo ==
    /\ pc = "module_convert"
    /\ module_output' = updater_convert_json_to_obo(given)
    /\ pc' = "converted_both"
    /\ UNCHANGED <<given, class_output>>
    /\ ModuleFrame

NextModuleLevel ==
    \/ ClassParseOboFile
    \/ ModuleParseOboFile
    \/ ClassConvertJsonToObo
    \/ ModuleConvertJsonToObo

SpecModuleLevel == InitModuleLevel /\ [][NextModuleLevel]_vars

-----------------------------------------------------------------------------
(* validate_json_structure on the values json.load can return *)

\* the items a terms list is made of: not an object, without id and name,
\* without name, without id, complete
JsonTerms ==
    { Number,
      Dict(<<>>),
      Dict(<<Entry(K_id, ID_A)>>),
      Dict(<<Entry(K_name, V_x)>>),
      Dict(<<Entry(K_id, ID_A), Entry(K_name, V_x)>>) }

\* the header entry: none, an object, not an object
JsonHeaderEntries ==
    { <<>>,
      <<Entry(K_header, Dict(<<>>))>>,
      <<Entry(K_header, Dict(<<Entry(K_n, V_x)>>))>>,
      <<Entry(K_header, List(<<>>))>> }

\* the terms entry: none, not a list, a list
JsonTermsEntries ==
    { <<>>, <<Entry(K_terms, Dict(<<>>))>>, <<Entry(K_terms, None)>> }
        \union { <<Entry(K_terms, List(ts))>> :
                   ts \in SeqsUpTo(JsonTerms, MaxJsonTerms) }

\* the typedefs entry: none, a list, null, a number, a string
JsonTypedefsEntries ==
    { <<>>,
      <<Entry(K_typedefs, List(<<>>))>>,
      <<Entry(K_typedefs, List(<<Dict(<<Entry(K_id, ID_T)>>)>>))>>,
      <<Entry(K_typedefs, None)>>,
      <<Entry(K_typedefs, Number)>>,
      <<Entry(K_typedefs, Str(<<"a", "b">>))>> }

JsonValues ==
    { None, Number, Str(<<"x">>), Str(K_header),
      Str(K_header \o <<" ">> \o K_terms),
      List(<<>>), List(<<Str(K_header)>>),
      List(<<Str(K_header), Str(K_terms)>>) }
        \union { Dict(h \o t \o td) :
                   h \in JsonHeaderEntries, t \in JsonTermsEntries,
                   td \in JsonTypedefsEntries }

InitStructure ==
    /\ pc \in {"validate_json_structure", "_validate_json_structure"}
    /\ json_value \in JsonValues
    /\ validation = None
    /\ ParserIdle
    /\ ConverterIdle
    /\ ComparatorIdle
    /\ ValidatorIdle
    /\ PipelineIdle
    /\ LaterIdle

StructureFrame ==
    UNCHANGED <<parserVars, converterVars, comparatorVars, validatorVars,
                pipelineVars, laterVars>>

\* FileValidator.validate_json_structure(data)
ValidateJsonStructure ==
    /\ pc = "validate_json_structure"
    /\ validation' = validate_json_structure(json_value)
    /\ pc' = "json_structure_validated"
    /\ UNCHANGED json_value
    /\ StructureFrame

\* UserFileProcessor._validate_json_structure(data)
UserValidateJsonStructure ==
    /\ pc = "_validate_json_structure"
    /\ validation' = _validate_json_structure(json_value)
    /\ pc' = "json_structure_checked"
    /\ UNCHANGED json_value
    /\ StructureFrame

NextStructure ==
    \/ ValidateJsonStructure
    \/ UserValidateJsonStructure

SpecStructure == InitStructure /\ [][NextStructure]_vars

\* the rules of the structural validation, read off the value
has_key(v, key) == v.tag = "dict" /\ dict_has(v.entries, key)
HeaderMissing(v) == ~has_key(v, K_header)
TermsMissing(v) == ~has_key(v, K_terms)
HeaderNotObject(v) == dict_get(v.entries, K_header).tag # "dict"
TermsNotList(v) == dict_get(v.entries, K_terms).tag # "list"
TermNotObject(t) == t.tag # "dict"
TermBroken(t) ==
    TermNotObject(t) \/ ~dict_has(t.entries, K_id)
        \/ ~dict_has(t.entries, K_name)
TermsOf(v) == dict_get(v.entries, K_terms).items

NoRuleViolated(v) ==
    /\ v.tag = "dict"
    /\ ~HeaderMissing(v)
    /\ ~TermsMissing(v)
    /\ ~HeaderNotObject(v)
    /\ ~TermsNotList(v)
    /\ \A n \in 1..Len(TermsOf(v)) : ~TermBroken(TermsOf(v)[n])

\* C19: structural validation returns success, with the statistics, exactly
\* when the value breaks none of the rules (header and terms present,
\* header an object, terms a list, every term an object with id and name).
C19_SuccessIffNoRuleViolated ==
    /\ pc = "json_structure_validated" =>
           /\ validation.success = NoRuleViolated(json_value)
           /\ validation.success => validation.data # <<>>
    /\ pc = "json_structure_checked" =>
           /\ validation.valid = NoRuleViolated(json_value)
           /\ validation.valid => validation.stats # <<>>

\* what does hold for a JSON object: a failure for every broken rule, with
\* the message of the first one
StructureFailureMessages ==
    (pc = "json_structure_validated" /\ json_value.tag = "dict") =>
        LET v == json_value
        IN  /\ HeaderMissing(v) =>
                validation.message = "Missing required field: header"
            /\ (~HeaderMissing(v) /\ TermsMissing(v)) =>
                validation.message = "Missing required field: terms"
            /\ (~HeaderMissing(v) /\ ~TermsMissing(v)) =>
                /\ HeaderNotObject(v) =>
                    validation.message = "Header field must be an object"
                /\ (~HeaderNotObject(v) /\ TermsNotList(v)) =>
                    validation.message = "Terms field must be an array"
                /\ (~HeaderNotObject(v) /\ ~TermsNotList(v)) =>
                    \A n \in 1..Len(TermsOf(v)) :
                        (/\ TermBroken(TermsOf(v)[n])
                         /\ \A m \in 1..(n - 1) : ~TermBroken(TermsOf(v)[m]))
                            => validation.message \in
                                 { "Term " \o ToString(n) \o w :
                                     w \in { " is not an object",
                                             " missing id field",
                                             " missing name field" } }
            /\ ~NoRuleViolated(v) => ~validation.success

\* and success comes with the four statistics
StructureStatistics ==
    (pc = "json_structure_validated" /\ validation.success) =>
        LET d == json_value.entries
        IN  validation.data =
                <<Entry("header_fields", Len(dict_get(d, K_header).entries)),
                  Entry("total_terms", Len(TermsOf(json_value))),
                  Entry("has_typedefs", dict_has(d, K_typedefs)),
                  Entry("typedef_count",
                        IF ~dict_has(d, K_typedefs) THEN 0
                        ELSE len(dict_get(d, K_typedefs)))>>

-----------------------------------------------------------------------------
(* user_file_processor.py: process_user_file, and github_file_updater.py:  *)
(* _handle_update_with_comparison, with the files they create and remove.  *)

\* the JSON value json.dump writes for a parsed Document
document_value(doc) ==
    LET records(recs) == List([n \in 1..Len(recs) |-> Dict(recs[n])])
    IN  Dict(<<Entry(K_header, Dict(doc.header)),
               Entry(K_terms, records(doc.terms))>>
             \o IF doc.has_typedefs
                THEN <<Entry(K_typedefs, records(doc.typedefs))>>
                ELSE <<>>)

\* a file whose text json.load rejects
NotJson == [tag |-> "not json"]

Candidate(extension, text, value) ==
    [exists |-> TRUE, extension |-> extension, text |-> text,
     value |-> value]

\* no file at file_path
MissingCandidate ==
    [exists |-> FALSE, extension |-> ".obo", text |-> <<>>, value |-> None]

\* the lines the OBO candidates are written from
CandidateLines ==
    { MarkerLine(TermMarker),
      FieldLine(K_id, <<" ">>, <<"A">>, <<>>),
      FieldLine(K_name, <<" ">>, <<"x">>, <<>>),
      NoiseLine(<<" ", "z">>) }

UserCandidates ==
    { MissingCandidate, Candidate(".txt", <<>>, None),
      Candidate(".json", <<>>, NotJson) }
        \union { Candidate(".json", <<>>, v) : v \in JsonValues }
        \union { Candidate(".obo", render(ls), None) :
                   ls \in SeqsUpTo(CandidateLines, MaxCandidateLines) }

\* the files the updater may download
RemoteCandidates ==
    { Candidate(".obo", render(ls), None) :
        ls \in SeqsUpTo(CandidateLines, MaxCandidateLines) }

\* a file with this text
FileWith(text) == [exists |-> TRUE, written |-> <<>>, text |-> text]

InitPipeline ==
    /\ \/ pc = "process_user_file" /\ candidate \in UserCandidates
       \/ pc = "_handle_update_with_comparison"
              /\ candidate \in RemoteCandidates
    /\ disk = {}
    /\ user_data = None
    /\ processed_files = <<>>
    /\ committed = FALSE
    /\ returned = None
    /\ ParserIdle
    /\ ConverterIdle
    /\ ComparatorIdle
    /\ ValidatorIdle
    /\ StructureIdle
    /\ LaterIdle

PipelineFrame ==
    UNCHANGED <<parserVars, converterVars, comparatorVars, validatorVars,
                structureVars, laterVars>>

\* return success, json_file_path, message
UserReturn(success, json_file, message) ==
    /\ returned' = [success |-> success, json_file |-> json_file,
                    message |-> message]
    /\ pc' = "user_returned"

\* _cleanup_temp_files(file_list)
_cleanup_temp_files(files, file_list) == files \ file_list

\* process_user_file, lines 67-87: existence check, copy, dispatch
ProcessUserFile ==
    /\ pc = "process_user_file"
    /\ IF ~candidate.exists
       THEN /\ UserReturn(FALSE, "None", "File does not exist")
            /\ UNCHANGED disk
       ELSE \E copied \in BOOLEAN :
                IF ~copied
                THEN /\ UserReturn(FALSE, "None",
                             "Failed to copy file to customerfile directory")
                     /\ UNCHANGED disk
                ELSE /\ disk' = disk \union {"copied_file"}
                     /\ CASE candidate.extension = ".json" ->
                                 /\ pc' = "_process_json_file"
                                 /\ UNCHANGED returned
                          [] candidate.extension = ".obo" ->
                                 /\ pc' = "_process_obo_file"
                                 /\ UNCHANGED returned
                          [] OTHER ->
                                 UserReturn(FALSE, "None",
                                            "Unsupported file type")
    /\ UNCHANGED <<candidate, user_data, processed_files, committed>>
    /\ PipelineFrame

\* _process_json_file
ProcessJsonFile ==
    /\ pc = "_process_json_file"
    /\ IF candidate.value = NotJson
       THEN /\ UserReturn(FALSE, "None", "JSON format error")
            /\ UNCHANGED processed_files
       ELSE LET validation_result == _validate_json_structure(candidate.value)
            IN  IF ~validation_result.valid
                THEN /\ UserReturn(FALSE, "None",
                             "JSON structure validation failed: "
                                 \o validation_result.message)
                     /\ UNCHANGED processed_files
                ELSE /\ processed_files' =
                            Append(processed_files,
                                   [original_file |-> "copied_file",
                                    final_file |-> "copied_file",
                                    type |-> "json",
                                    status |-> "validated"])
                     /\ UserReturn(TRUE, "copied_file",
                                   "JSON file validation successful")
    /\ UNCHANGED <<candidate, disk, user_data, committed>>
    /\ PipelineFrame

\* _process_obo_file, step 1: parse the copied file and save the JSON
ParseUserFile ==
    /\ pc = "_process_obo_file"
    /\ user_data' = parse_obo_file(candidate.text)
    /\ disk' = disk \union {"json_file"}
    /\ pc' = "user_validate_structure"
    /\ UNCHANGED <<candidate, processed_files, committed, returned>>
    /\ PipelineFrame

\* _process_obo_file, step 2: validate the structure of the parsed data
ValidateUserStructure ==
    /\ pc = "user_validate_structure"
    /\ LET validation_result ==
               _validate_json_structure(document_value(user_data))
       IN  IF ~validation_result.valid
           THEN /\ disk' = _cleanup_temp_files(disk, {"json_file",
                                                     "converted_obo_file"})
                /\ UserReturn(FALSE, "None",
                       "Converted JSON structure validation failed: "
                           \o validation_result.message)
           ELSE /\ pc' = "user_roundtrip"
                /\ UNCHANGED <<disk, returned>>
    /\ UNCHANGED <<candidate, user_data, processed_files, committed>>
    /\ PipelineFrame

\* _process_obo_file, steps 3 to 5: write the OBO text back, validate the
\* round trip, clean up and record
RoundtripUserFile ==
    /\ pc = "user_roundtrip"
    /\ \E run1, run2 \in GitRuns :
           LET roundtrip_success ==
                   validate_roundtrip_conversion(
                       FileWith(candidate.text),
                       FileWith(convert_json_to_obo(user_data)), run1, run2)
               written == disk \union {"converted_obo_file"}
           IN  IF ~roundtrip_success
               THEN /\ disk' = _cleanup_temp_files(written,
                                    {"json_file", "converted_obo_file"})
                    /\ UserReturn(FALSE, "None",
                           "Roundtrip conversion validation failed, OBO file may have format issues")
                    /\ UNCHANGED processed_files
               ELSE /\ disk' = written \ {"copied_file", "converted_obo_file"}
                    /\ processed_files' =
                           Append(processed_files,
                                  [original_file |-> "copied_file",
                                   final_file |-> "json_file",
                                   type |-> "obo",
                                   status |-> "converted_and_validated"])
                    /\ UserReturn(TRUE, "json_file",
                           "OBO file converted to JSON and validation successful")
    /\ UNCHANGED <<candidate, user_data, committed>>
    /\ PipelineFrame

\* return of _handle_update_with_comparison, with the message printed
UpdaterReturn(success, message) ==
    /\ returned' = [success |-> success, json_file |-> "None",
                    message |-> message]
    /\ pc' = "updater_returned"

\* _handle_update_with_comparison, step 1: _download_to_temp
DownloadToTemp ==
    /\ pc = "_handle_update_with_comparison"
    /\ \E downloaded \in BOOLEAN :
           IF downloaded
           THEN /\ disk' = disk \union {"temp_file"}
                /\ pc' = "_convert_and_validate_temp"
                /\ UNCHANGED returned
           ELSE /\ UpdaterReturn(FALSE, "Failed to download temporary file")
                /\ UNCHANGED disk
    /\ UNCHANGED <<candidate, user_data, processed_files, committed>>
    /\ PipelineFrame

\* step 2: _convert_and_validate_temp. It parses, converts and validates
\* with the module-level functions of github_file_updater.py on the
\* downloaded text. Whether the round trip fails or a step raises, the JSON
\* and the converted file are removed, and the caller removes temp_file.
ConvertAndValidateTemp ==
    /\ pc = "_convert_and_validate_temp"
    /\ \E run1, run2 \in GitRuns, raised \in BOOLEAN :
           LET temp_data == updater_parse_obo_file(candidate.text)
               validation_success ==
                   /\ ~raised
                   /\ validate_roundtrip_conversion(
                          FileWith(candidate.text),
                          FileWith(updater_convert_json_to_obo(temp_data)),
                          run1, run2)
               written == disk \union {"temp_json", "temp_converted_obo"}
           IN  IF validation_success
               THEN /\ disk' = written \ {"temp_converted_obo"}
                    /\ pc' = "ask_user"
                    /\ UNCHANGED returned
               ELSE /\ disk' = _cleanup_temp_files(
                                   written \ {"temp_converted_obo",
                                              "temp_json"},
                                   {"temp_file"})
                    /\ UpdaterReturn(FALSE,
                           "Temporary file conversion validation failed")
    /\ UNCHANGED <<candidate, user_data, processed_files, committed>>
    /\ PipelineFrame

\* steps 3 and 4: the changes are shown and the user is asked; an exception
\* on the way is caught at lines 358-364
AskUser ==
    /\ pc = "ask_user"
    /\ \E user_choice \in {"y", "n", "exception"} :
           CASE user_choice = "y" ->
                    /\ pc' = "_apply_update"
                    /\ UNCHANGED <<disk, returned>>
             [] user_choice = "n" ->
                    /\ disk' = _cleanup_temp_files(disk,
                                    {"temp_file", "temp_json"})
                    /\ UpdaterReturn(FALSE, "User chose not to apply update")
             [] user_choice = "exception" ->
                    /\ disk' = _cleanup_temp_files(disk,
                                    {"temp_file", "temp_json"})
                    /\ UpdaterReturn(FALSE, "Update process error")
    /\ UNCHANGED <<candidate, user_data, processed_files, committed>>
    /\ PipelineFrame

\* step 5: _apply_update moves the two files to their official names; an
\* exception before the moves leaves them where they are
ApplyUpdate ==
    /\ pc = "_apply_update"
    /\ \E applied \in BOOLEAN :
           IF applied
           THEN /\ disk' = (disk \ {"temp_file", "temp_json"})
                               \union {"new_filename", "new_json_filename"}
                /\ committed' = TRUE
                /\ UpdaterReturn(TRUE, "Update applied")
           ELSE /\ UpdaterReturn(FALSE, "Failed to apply update")
                /\ UNCHANGED <<disk, committed>>
    /\ UNCHANGED <<candidate, user_data, processed_files>>
    /\ PipelineFrame

NextPipeline ==
    \/ ProcessUserFile
    \/ ProcessJsonFile
    \/ ParseUserFile
    \/ ValidateUserStructure
    \/ RoundtripUserFile
    \/ DownloadToTemp
    \/ ConvertAndValidateTemp
    \/ AskUser
    \/ ApplyUpdate

SpecPipeline == InitPipeline /\ [][NextPipeline]_vars

\* the operation returned because the structural or the round-trip
\* validation of the candidate failed
UserValidationFailed ==
    /\ pc = "user_returned"
    /\ ~returned.success
    /\ returned.message \notin
           { "File does not exist",
             "Failed to copy file to customerfile directory",
             "Unsupported file type", "JSON format error" }

UpdaterValidationFailed ==
    /\ pc = "updater_returned"
    /\ returned.message = "Temporary file conversion validation failed"

\* C20: when the operation returns after a failed structural or round-trip
\* validation, no file created for the candidate is left on disk, no
\* processing record has been added and nothing has been committed.
C20_Transaction ==
    (UserValidationFailed \/ UpdaterValidationFailed) =>
        /\ disk = {}
        /\ processed_files = <<>>
        /\ ~committed

\* what does hold: the generated JSON and the re-serialized OBO are gone,
\* nothing is recorded or committed, and the updater leaves no file
GeneratedFilesDiscarded ==
    (UserValidationFailed \/ UpdaterValidationFailed) =>
        /\ disk \subseteq {"copied_file"}
        /\ UpdaterValidationFailed => disk = {}
        /\ processed_files = <<>>
        /\ ~committed

-----------------------------------------------------------------------------
(* The timestamped files of SBO_OBO_Files/localfiles: the search for the    *)
(* latest one, _apply_update and _cleanup_old_versions. A file name is the  *)
(* sequence of its characters, the directory the set of the names in it.    *)

MaxStamps == 4  \* commit times a file name may carry

\* the characters file names are written with, in code-point order
CodePoints ==
    <<".", "0", "1", "2", "3", "4", "5", "6", "7", "8", "9", "B", "O", "S",
      "_", "a", "b", "c", "d", "e", "f", "g", "h", "i", "j", "k", "l", "m",
      "n", "o", "p", "q", "r", "s", "t", "u", "v", "w", "x", "y", "z">>

ord(c) == CHOOSE n \in 1..Len(CodePoints) : CodePoints[n] = c

\* a < b for two str
RECURSIVE str_lt(_, _)
str_lt(a, b) ==
    IF b = <<>> THEN FALSE
    ELSE IF a = <<>> THEN TRUE
    ELSE IF Head(a) # Head(b) THEN ord(Head(a)) < ord(Head(b))
    ELSE str_lt(Tail(a), Tail(b))

endswith(s, p) ==
    Len(s) >= Len(p) /\ SubSeq(s, Len(s) - Len(p) + 1, Len(s)) = p

\* s.replace(old, ''), old not empty
RECURSIVE replace(_, _)
replace(s, old) ==
    IF s = <<>> THEN <<>>
    ELSE IF startswith(s, old)
    THEN replace(SubSeq(s, Len(old) + 1, Len(s)), old)
    ELSE <<Head(s)>> \o replace(Tail(s), old)

\* os.path.splitext of a name without a directory and without a leading dot
RECURSIVE splitext(_)
splitext(name) ==
    IF ~contains(name, ".") THEN <<name, <<>> >>
    ELSE IF name[Len(name)] = "."
    THEN <<SubSeq(name, 1, Len(name) - 1), <<".">> >>
    ELSE LET rest == splitext(SubSeq(name, 1, Len(name) - 1))
         IN  <<rest[1], Append(rest[2], name[Len(name)])>>

\* glob.glob of the pattern prefix "*" suffix in the directory
glob(names, prefix, suffix) ==
    { f \in names : /\ Len(f) >= Len(prefix) + Len(suffix)
                    /\ startswith(f, prefix)
                    /\ endswith(f, suffix) }

\* matching_files.sort(reverse=True); matching_files[0]
first_of_reverse_sort(names) ==
    CHOOSE f \in names : \A g \in names : g = f \/ str_lt(g, f)

\* FileUtils.find_latest_timestamped_file(pattern, directory)
find_latest_timestamped_file(names, prefix, suffix) ==
    LET matching_files == glob(names, prefix, suffix)
    IN  IF matching_files = {} THEN None
        ELSE first_of_reverse_sort(matching_files)

base_filename == <<"S", "B", "O", "_", "O", "B", "O", ".", "o", "b", "o">>
file_basename == splitext(base_filename)[1]
file_extension == splitext(base_filename)[2]
JsonExtension == <<".", "j", "s", "o", "n">>
InfoSuffix == <<".", "u", "p", "d", "a", "t", "e", "_", "i", "n", "f", "o">>
ConvertedSuffix == <<"_", "c", "o", "n", "v", "e", "r", "t", "e", "d">>

\* SBOWorkflowManager._find_latest_json_file()
_find_latest_json_file(names) ==
    LET json_files == glob(names, file_basename \o <<"_">>, JsonExtension)
    IN  IF json_files = {} THEN None ELSE first_of_reverse_sort(json_files)

\* os.path.splitext(f)[0].replace(file_basename + '_', '')
timestamp_part(f) == replace(splitext(f)[1], file_basename \o <<"_">>)

\* GitHubFileUpdater._cleanup_old_versions(): the directory it leaves
_cleanup_old_versions(names) ==
    LET matching_files ==
            { f \in glob(names, file_basename \o <<"_">>, file_extension) :
                ~endswith(f, ConvertedSuffix \o file_extension) }
        timestamps == { timestamp_part(f) : f \in matching_files }
        oldest_file ==
            CHOOSE f \in matching_files :
                \A g \in matching_files :
                    g = f \/ str_lt(timestamp_part(f), timestamp_part(g))
        oldest_basename == splitext(oldest_file)[1]
        files_to_delete ==
            { oldest_file, oldest_file \o InfoSuffix,
              oldest_basename \o JsonExtension,
              oldest_basename \o ConvertedSuffix \o file_extension }
    IN  IF Cardinality(timestamps) <= 2 THEN names
        ELSE names \ files_to_delete

\* shutil.move(src, dst) of a file that exists
move(names, from, to) == (names \ {from}) \union {to}

\* GitHubFileUpdater._apply_update(temp_file, temp_json, remote_info,
\* changes): what it returns, the directory and the local_filename it
\* leaves; timestamp is strftime of remote_info['last_modified'], log_raises
\* says that recording the change log raised; local_filename None stands
\* for the attribute left as it was
_apply_update(names, temp_file, temp_json, timestamp, log_raises) ==
    LET new_filename == file_basename \o <<"_">> \o timestamp
                            \o file_extension
        new_json_filename == file_basename \o <<"_">> \o timestamp
                                 \o JsonExtension
        moved == move(move(names, temp_file, new_filename),
                      temp_json, new_json_filename)
        saved == moved \union {new_filename \o InfoSuffix}
    IN  IF temp_file \notin names
        THEN [success |-> FALSE, names |-> names, local_filename |-> None]
        ELSE IF temp_json \notin names
        THEN [success |-> FALSE,
              names |-> move(names, temp_file, new_filename),
              local_filename |-> None]
        ELSE IF log_raises
        THEN [success |-> FALSE, names |-> moved,
              local_filename |-> new_filename]
        ELSE [success |-> TRUE, names |-> _cleanup_old_versions(saved),
              local_filename |-> new_filename]

\* strftime('%Y%m%d_%H%M%S') of the n-th commit time, n at most 9
DigitChars == <<"0", "1", "2", "3", "4", "5", "6", "7", "8", "9">>
strftime(n) ==
    <<"2", "0", "2", "3", "0", "1", "0">> \o <<DigitChars[n + 1]>> \o <<"_", "1", "2", "0", "0", "0", "0">>

\* the files of the version with this timestamp
version_files(timestamp) ==
    { file_basename \o <<"_">> \o timestamp \o file_extension,
      file_basename \o <<"_">> \o timestamp \o file_extension \o InfoSuffix,
      file_basename \o <<"_">> \o timestamp \o JsonExtension }

\* _download_to_temp and _convert_and_validate_temp: temp_file, temp_json
temp_filename(timestamp, extension) ==
    file_basename \o <<"_", "t", "e", "m", "p", "_">> \o timestamp \o extension

StoredVersions ==
    { UNION { version_files(strftime(n)) : n \in stored } :
        stored \in SUBSET (1..MaxStamps) }

\* temporary files an earlier, interrupted update has left
LeftoverFiles ==
    SUBSET { temp_filename(strftime(1), file_extension),
             temp_filename(strftime(1), JsonExtension) }

\* the temporary files of the update being applied
TempFiles ==
    { temp_filename(strftime(MaxStamps), file_extension),
      temp_filename(strftime(MaxStamps), JsonExtension) }

VersionFrame ==
    UNCHANGED <<parserVars, converterVars, comparatorVars, validatorVars,
                structureVars, pipelineVars, moduleVars, workflowVars>>

InitVersions ==
    /\ \/ /\ pc \in {"find_latest_timestamped_file",
                     "_find_latest_json_file", "_cleanup_old_versions"}
          /\ \E stored \in StoredVersions, left \in LeftoverFiles :
                 directory = stored \union left
       \/ /\ pc = "_apply_update_on_disk"
          /\ \E stored \in StoredVersions, left \in LeftoverFiles :
                 directory = stored \union left \union TempFiles
    /\ found = None
    /\ local_filename = None
    /\ apply_result = None
    /\ ParserIdle
    /\ ConverterIdle
    /\ ComparatorIdle
    /\ ValidatorIdle
    /\ StructureIdle
    /\ PipelineIdle
    /\ ModuleIdle
    /\ WorkflowIdle

\* FileUtils.find_latest_timestamped_file("SBO_OBO_*.obo", directory)
FindLatestTimestampedFile ==
    /\ pc = "find_latest_timestamped_file"
    /\ found' = find_latest_timestamped_file(
                    directory, file_basename \o <<"_">>, file_extension)
    /\ pc' = "found_latest"
    /\ UNCHANGED <<directory, local_filename, apply_result>>
    /\ VersionFrame

\* SBOWorkflowManager._find_latest_json_file()
FindLatestJsonFile ==
    /\ pc = "_find_latest_json_file"
    /\ found' = _find_latest_json_file(directory)
    /\ pc' = "found_latest_json"
    /\ UNCHANGED <<directory, local_filename, apply_result>>
    /\ VersionFrame

\* GitHubFileUpdater._cleanup_old_versions()
CleanupOldVersions ==
    /\ pc = "_cleanup_old_versions"
    /\ directory' = _cleanup_old_versions(directory)
    /\ pc' = "cleaned"
    /\ UNCHANGED <<found, local_filename, apply_result>>
    /\ VersionFrame

\* GitHubFileUpdater._apply_update(temp_file, temp_json, remote_info,
\* changes), the files named, with the clean-up it ends with
ApplyUpdateOnDisk ==
    /\ pc = "_apply_update_on_disk"
    /\ \E n \in 1..MaxStamps, log_raises \in BOOLEAN :
           LET out == _apply_update(
                          directory,
                          temp_filename(strftime(MaxStamps), file_extension),
                          temp_filename(strftime(MaxStamps), JsonExtension),
                          strftime(n), log_raises)
           IN  /\ directory' = out.names
               /\ local_filename' = out.local_filename
               /\ apply_result' = out.success
    /\ pc' = "applied"
    /\ UNCHANGED found
    /\ VersionFrame

NextVersions ==
    \/ FindLatestTimestampedFile
    \/ FindLatestJsonFile
    \/ CleanupOldVersions
    \/ ApplyUpdateOnDisk

SpecVersions == InitVersions /\ [][NextVersions]_vars

-----------------------------------------------------------------------------
(* main_workflow.py: SBOWorkflowManager.run_workflow and its handlers. The  *)
(* GitHubFileUpdater of github_file_updater.py defines none of              *)
(* auto_download_update, apply_downloaded_update and cleanup_temp_update,   *)
(* so calling one of them raises AttributeError.                            *)

\* the texts input() may return at a menu
ChoiceInputs == { <<"1">>, <<"2">>, <<"3">>, <<"0">>, <<"x">>, <<>> }

\* int(text) of a text without blanks: its value, or -1 for ValueError
RECURSIVE int(_)
int(text) ==
    IF text = <<>> \/ \E n \in 1..Len(text) : text[n] \notin Digits THEN -1
    ELSE IF Len(text) = 1 THEN ord(text[1]) - ord("0")
    ELSE 10 * int(SubSeq(text, 1, Len(text) - 1))
             + ord(text[Len(text)]) - ord("0")

\* _get_user_choice, one pass of the loop: the choice returned, or None
\* when the loop goes on
_get_user_choice(choices, text) ==
    LET choice_num == int(strip(text))
    IN  IF 1 <= choice_num /\ choice_num <= Len(choices)
        THEN Str(choices[choice_num])
        ELSE None

UploadOrCurrent == <<"Upload your own file", "Use current file">>
UploadOrDownload == <<"Upload your own file", "Try to download latest file">>
ReuploadOrCurrent == <<"Re-upload", "Use current file">>

\* the menu each handler shows
choices_of(handler) ==
    CASE handler = "_handle_no_update_choice" -> UploadOrCurrent
      [] handler = "_handle_no_existing_file" -> UploadOrDownload
      [] handler = "_handle_file_upload_failed" -> ReuploadOrCurrent

Menus ==
    { "_handle_no_update_choice", "_handle_no_existing_file",
      "_handle_file_upload_failed" }

\* the value _find_latest_json_file returns: a path or None
latest_json_file(names) ==
    IF glob(names, file_basename \o <<"_">>, JsonExtension) = {} THEN None
    ELSE Str(_find_latest_json_file(names))

\* the json_file process_user_file returns for an accepted upload
UserUploadJson == Str(<<"x", "_", "u", "s", "e", "r", "_", "u", "p", "l", "o", "a", "d", ".", "j", "s", "o", "n">>)

\* _check_for_updates: update_info. get_update_status may raise, report no
\* update, or report one; auto_download_update then raises AttributeError,
\* which the except clause turns into None as well
_check_for_updates(status) ==
    CASE status = "raises" -> None
      [] status = "up to date" -> None
      [] status = "needs_update" -> None

WorkflowFrame ==
    UNCHANGED <<parserVars, converterVars, comparatorVars, validatorVars,
                structureVars, pipelineVars, moduleVars, versionVars>>

InitWorkflow ==
    /\ pc = "run_workflow"
    /\ \E stored \in StoredVersions, left \in LeftoverFiles :
           directory = stored \union left
    /\ found = None
    /\ local_filename = None
    /\ apply_result = None
    /\ active_file = None
    /\ choice_input = None
    /\ ParserIdle
    /\ ConverterIdle
    /\ ComparatorIdle
    /\ ValidatorIdle
    /\ StructureIdle
    /\ PipelineIdle
    /\ ModuleIdle

\* run_workflow, lines 68-74, with _handle_no_updates: update_info is None
\* whatever the update check finds
RunWorkflow ==
    /\ pc = "run_workflow"
    /\ \E status \in {"raises", "up to date", "needs_update"} :
           /\ _check_for_updates(status) = None
           /\ pc' = IF latest_json_file(directory) # None
                    THEN "_handle_no_update_choice"
                    ELSE "_handle_no_existing_file"
    /\ UNCHANGED <<active_file, choice_input>>
    /\ WorkflowFrame

\* _get_user_choice: an input that is no number of the menu; the loop asks
\* again
InvalidChoice ==
    /\ pc \in Menus
    /\ \E text \in ChoiceInputs :
           /\ _get_user_choice(choices_of(pc), text) = None
           /\ choice_input' = Str(text)
    /\ UNCHANGED <<pc, active_file>>
    /\ WorkflowFrame

\* self.active_file = self._find_latest_json_file()
UseCurrentFile(next_if_none) ==
    /\ active_file' = latest_json_file(directory)
    /\ pc' = IF latest_json_file(directory) = None THEN next_if_none
             ELSE "_show_active_file"

\* _handle_no_update_choice
NoUpdateChoice ==
    /\ pc = "_handle_no_update_choice"
    /\ \E text \in ChoiceInputs :
           LET choice == _get_user_choice(UploadOrCurrent, text)
           IN  /\ choice # None
               /\ choice_input' = Str(text)
               /\ IF choice = Str("Upload your own file")
                  THEN pc' = "_handle_file_upload" /\ UNCHANGED active_file
                  ELSE UseCurrentFile("_handle_no_existing_file")
    /\ WorkflowFrame

\* _handle_no_existing_file, choice 'Upload your own file'
NoExistingFileUpload ==
    /\ pc = "_handle_no_existing_file"
    /\ \E text \in ChoiceInputs :
           /\ _get_user_choice(UploadOrDownload, text)
                  = Str("Upload your own file")
           /\ choice_input' = Str(text)
    /\ pc' = "_handle_file_upload"
    /\ UNCHANGED active_file
    /\ WorkflowFrame

\* _handle_no_existing_file, choice 'Try to download latest file':
\* self.github_updater.auto_download_update() raises AttributeError, which
\* no handler catches
NoExistingFileDownload ==
    /\ pc = "_handle_no_existing_file"
    /\ \E text \in ChoiceInputs :
           /\ _get_user_choice(UploadOrDownload, text)
                  = Str("Try to download latest file")
           /\ choice_input' = Str(text)
    /\ pc' = "raised AttributeError"
    /\ UNCHANGED active_file
    /\ WorkflowFrame

\* _handle_file_upload: an empty path, a path to no file, a file
\* process_user_file rejects, or one it accepts
HandleFileUpload ==
    /\ pc = "_handle_file_upload"
    /\ \E upload \in {"empty path", "no such file", "rejected", "accepted"} :
           IF upload = "accepted"
           THEN active_file' = UserUploadJson /\ pc' = "_show_active_file"
           ELSE UNCHANGED active_file /\ pc' = "_handle_file_upload_failed"
    /\ UNCHANGED choice_input
    /\ WorkflowFrame

\* _handle_file_upload_failed, choice 'Re-upload'
Reupload ==
    /\ pc = "_handle_file_upload_failed"
    /\ \E text \in ChoiceInputs :
           /\ _get_user_choice(ReuploadOrCurrent, text) = Str("Re-upload")
           /\ choice_input' = Str(text)
    /\ pc' = "_handle_file_upload"
    /\ UNCHANGED active_file
    /\ WorkflowFrame

\* _handle_file_upload_failed, choice 'Use current file'; without a JSON
\* file it prints 'No available files' and returns
UseCurrentAfterFailedUpload ==
    /\ pc = "_handle_file_upload_failed"
    /\ \E text \in ChoiceInputs :
           /\ _get_user_choice(ReuploadOrCurrent, text)
                  = Str("Use current file")
           /\ choice_input' = Str(text)
    /\ UseCurrentFile("_show_active_file")
    /\ WorkflowFrame

\* run_workflow, line 77: _show_active_file, then run_workflow returns
ShowActiveFile ==
    /\ pc = "_show_active_file"
    /\ pc' = "returned"
    /\ UNCHANGED <<active_file, choice_input>>
    /\ WorkflowFrame

NextWorkflow ==
    \/ RunWorkflow
    \/ InvalidChoice
    \/ NoUpdateChoice
    \/ NoExistingFileUpload
    \/ NoExistingFileDownload
    \/ HandleFileUpload
    \/ Reupload
    \/ UseCurrentAfterFailedUpload
    \/ ShowActiveFile

SpecWorkflow == InitWorkflow /\ [][NextWorkflow]_vars

\* the program goes on with its next statement; at each menu the user
\* eventually enters a number of the menu, at the upload prompt a path, and
\* after failed uploads does not choose 'Re-upload' forever
WorkflowFairness ==
    /\ WF_vars(RunWorkflow)
    /\ WF_vars(ShowActiveFile)
    /\ WF_vars(HandleFileUpload)
    /\ WF_vars(NoUpdateChoice)
    /\ WF_vars(NoExistingFileUpload \/ NoExistingFileDownload)
    /\ WF_vars(Reupload \/ UseCurrentAfterFailedUpload)
    /\ SF_vars(UseCurrentAfterFailedUpload)

SpecWorkflowFair == SpecWorkflow /\ WorkflowFairness

Init ==
    InitParse \/ InitSerialize \/ InitDiff \/ InitValidate \/ InitStructure
        \/ InitPipeline \/ InitRecordDiff \/ InitModuleLevel
        \/ InitVersions \/ InitWorkflow
Next ==
    NextSerialize \/ NextDiff \/ NextValidate \/ NextStructure
        \/ NextPipeline \/ NextModuleLevel \/ NextVersions
        \/ NextWorkflow
Spec == Init /\ [][Next]_vars

-----------------------------------------------------------------------------
(* What the written lines say, read off the shapes they were written from *)

\* the line shape a raw line was written from
is_written(raw) == \E l \in LinePool : render_line(l) = raw
line_of(raw) == CHOOSE l \in LinePool : render_line(l) = raw

has_colon(l) == l.kind \in {"field", "is_a"}

\* the text before the first colon, blanks around it removed
line_key(l) == IF l.kind = "is_a" THEN K_is_a ELSE l.key

\* the text after the first colon, leading blanks removed, the rest verbatim
line_value(l) ==
    IF l.kind = "is_a" THEN l.id \o l.sep \o l.name ELSE l.val \o l.trail

\* the lines written before the first marker line
RECURSIVE header_lines(_)
header_lines(ls) ==
    IF ls = <<>> \/ Head(ls).kind = "marker" THEN <<>>
    ELSE <<Head(ls)>> \o header_lines(Tail(ls))

is_content(l) == l.kind # "noise"
drop_noise(ls) == SelectSeq(ls, is_content)

\* the value a record holds last under a key: the scalar, or the last item
last_held(rec, key) ==
    LET v == dict_get(rec, key)
    IN  IF v.tag = "list" THEN v.items[Len(v.items)] ELSE v

\* the step of _parse_section's loop that has just handled `line`
SectionStep ==
    pc = "section" /\ pc' = "section" /\ section_lines' # section_lines

-----------------------------------------------------------------------------
(* Claims about the parser, checked under SpecParse *)

\* C7 (header part): every header line with a colon stores, under its
\* trimmed key, the remainder with only leading blanks removed; the last
\* line of a key wins.
C7_HeaderRule ==
    pc # "parse" =>
        LET H == header_lines(src)
        IN  \A n \in 1..Len(H) :
                (/\ has_colon(H[n])
                 /\ \A m \in (n + 1)..Len(H) :
                        has_colon(H[m]) => line_key(H[m]) # line_key(H[n]))
                => /\ dict_has(header, line_key(H[n]))
                   /\ dict_get(header, line_key(H[n])) = Str(line_value(H[n]))

\* C7 (section part): a section line with a colon that is no is_a reference
\* stores, under its trimmed key, the remainder with only leading blanks
\* removed.
C7_SectionRule ==
    (pc = "section" /\ line # NoLine /\ is_written(line)) =>
        LET l == line_of(line)
        IN  l.kind = "field" =>
                /\ dict_has(parsed_section, l.key)
                /\ last_held(parsed_section, l.key) = Str(line_value(l))

\* C7: the parser's line rule is the same for header lines and section
\* lines: key = text before the first colon, trimmed; value = the remainder
\* with only leading whitespace trimmed, trailing whitespace retained.
C7_LineRule == C7_HeaderRule /\ C7_SectionRule

\* C8: the parser is total: every input text is parsed to the end and gives
\* a Document with header and terms; blank lines and lines without a colon
\* contribute nothing (the text without them parses to the same Document).
C8_Total ==
    pc = "parsed" =>
        /\ {"header", "terms"} \subseteq DOMAIN result
        /\ result = parse_obo_file(render(drop_noise(src)))

C8_Witness ==
    /\ pc = "parsed"
    /\ \E n \in 1..Len(src) : src[n] = NoiseLine(<<>>)
    /\ \E n \in 1..Len(src) : src[n] = NoiseLine(<<" ", "z">>)
    /\ \E n \in 1..Len(src) : src[n] = FieldLine(<<>>, <<>>, <<>>, <<>>)
    /\ src[Len(src)].kind = "marker"

\* C9: in a section, a field other than is_a holds a scalar after its
\* first line, the list [first, second] after its second line, and gets
\* every further value appended; the other fields are left as they are.
C9_Promotion ==
    [][(SectionStep /\ is_written(line')) =>
          LET l == line_of(line')
              v == Str(line_value(l))
              old == dict_get(parsed_section, l.key)
          IN  (l.kind = "field" /\ l.key # K_is_a) =>
                  /\ dict_has(parsed_section', l.key)
                  /\ ~dict_has(parsed_section, l.key) =>
                         dict_get(parsed_section', l.key) = v
                  /\ (dict_has(parsed_section, l.key) /\ old.tag = "str") =>
                         dict_get(parsed_section', l.key) = List(<<old, v>>)
                  /\ (dict_has(parsed_section, l.key) /\ old.tag = "list") =>
                         dict_get(parsed_section', l.key)
                             = List(Append(old.items, v))
                  /\ \A n \in 1..Len(parsed_section) :
                         parsed_section[n].k # l.key =>
                             /\ dict_has(parsed_section', parsed_section[n].k)
                             /\ dict_get(parsed_section', parsed_section[n].k)
                                    = parsed_section[n].v
      ]_vars

\* a field seen three times in one section: scalar, then list, then append
C9_Witness ==
    /\ pc = "section"
    /\ dict_has(parsed_section, K_n)
    /\ dict_get(parsed_section, K_n)
           = List(<<Str(<<"x", " ">>), Str(<<"y", ":", "z">>),
                    Str(<<"x", " ">>)>>)

\* C10: is_a is a list from its first line on; a line "is_a: <SBO:digits>
\* ! <text>" appends the pair {id, name}, any other is_a line appends its
\* value as a string, duplicates included: one element per line, in order.
C10_IsAList ==
    [][(SectionStep /\ is_written(line')) =>
          LET l == line_of(line')
              before == IF dict_has(parsed_section, K_is_a)
                        THEN dict_get(parsed_section, K_is_a).items
                        ELSE <<>>
          IN  /\ l.kind = "is_a" =>
                     /\ dict_has(parsed_section', K_is_a)
                     /\ dict_get(parsed_section', K_is_a)
                            = List(Append(before, Ref(l.id, l.name)))
              /\ (l.kind = "field" /\ l.key = K_is_a) =>
                     /\ dict_has(parsed_section', K_is_a)
                     /\ dict_get(parsed_section', K_is_a)
                            = List(Append(before, Str(line_value(l))))
      ]_vars

\* a pair, the same pair again, and a value that is no reference
C10_Witness ==
    /\ pc = "section"
    /\ dict_has(parsed_section, K_is_a)
    /\ dict_get(parsed_section, K_is_a)
           = List(<<Ref(Parent, <<"m", " ">>), Ref(Parent, <<"m", " ">>),
                    Str(<<"q">>)>>)

\* the written lines of the section that the marker line src[n] opens
section_of(ls, n) ==
    LET later == { m \in (n + 1)..Len(ls) : ls[m].kind = "marker" }
        stop == IF later = {} THEN Len(ls) + 1
                ELSE CHOOSE m \in later : \A k \in later : m <= k
    IN  SubSeq(ls, n + 1, stop - 1)

\* a [Typedef] section of the written text holds a field line
typedef_section_with_field(ls) ==
    \E n \in 1..Len(ls) :
        /\ ls[n] = MarkerLine(TypedefMarker)
        /\ \E m \in 1..Len(section_of(ls, n)) : has_colon(section_of(ls, n)[m])

\* C11: for every input text, no record without fields is in terms or in
\* typedefs, and the typedefs key is present iff some [Typedef] section gave
\* a non-empty record, so a present typedefs is never an empty list.
C11_WellFormed ==
    pc = "parsed" =>
        /\ \A n \in 1..Len(result.terms) : result.terms[n] # <<>>
        /\ \A n \in 1..Len(result.typedefs) : result.typedefs[n] # <<>>
        /\ result.has_typedefs <=> typedef_section_with_field(src)
        /\ result.has_typedefs <=> result.typedefs # <<>>

\* a text with an empty [Typedef] section, an empty [Term] section and a
\* [Typedef] section that gives a record
C11_Witness ==
    /\ pc = "parsed"
    /\ result.has_typedefs
    /\ \E n \in 1..Len(src) :
           src[n] = MarkerLine(TypedefMarker) /\ section_of(src, n) = <<>>
    /\ \E n \in 1..Len(src) :
           src[n] = MarkerLine(TermMarker) /\ section_of(src, n) = <<>>

-----------------------------------------------------------------------------
(* Claims about the round trip, checked under SpecRoundTrip *)

\* C1: parsing the text the converter writes for a Document gives a
\* Document deeply equal to it.
C1_RoundTrip ==
    pc = "parsed" => document_eq(result, data)

\* the header of a Document with the trailing blanks of its values removed
RECURSIVE rstrip_values(_)
rstrip_values(hdr) ==
    IF hdr = <<>> THEN <<>>
    ELSE <<Entry(Head(hdr).k, Str(rstrip(Head(hdr).v.s)))>>
             \o rstrip_values(Tail(hdr))

\* what the round trip does keep: everything but the trailing blanks of
\* header values
RoundTripUpToHeaderBlanks ==
    pc = "parsed" =>
        document_eq(result, [data EXCEPT !.header = rstrip_values(@)])

-----------------------------------------------------------------------------
(* Claims about the converter, checked under SpecRoundTrip and SpecSerialize *)

Converted == data # None /\ pc # "convert"

\* the lines of one field: one per list element, one for a scalar
field_lines(key, value) ==
    IF value.tag = "list"
    THEN [n \in 1..Len(value.items) |->
             key \o <<":", " ">> \o
                 (IF value.items[n].tag = "ref"
                  THEN value.items[n].id \o <<" ", "!", " ">>
                           \o value.items[n].name
                  ELSE value.items[n].s)]
    ELSE <<key \o <<":", " ">> \o value.s>>

\* the keys of a record: those of the order list that it holds, in list
\* order, then its other keys in its own order
keys_in_order(rec, order) ==
    LET held(k) == dict_has(rec, k)
        other(k) == ~in_list(order, k)
    IN  SelectSeq(order, held)
            \o SelectSeq([n \in 1..Len(rec) |-> rec[n].k], other)

RECURSIVE lines_of_keys(_, _)
lines_of_keys(rec, keys) ==
    IF keys = <<>> THEN <<>>
    ELSE field_lines(Head(keys), dict_get(rec, Head(keys)))
             \o lines_of_keys(rec, Tail(keys))

record_block(marker, rec, order) ==
    <<marker>> \o lines_of_keys(rec, keys_in_order(rec, order)) \o << <<>> >>

RECURSIVE record_blocks(_, _, _)
record_blocks(marker, records, order) ==
    IF records = <<>> THEN <<>>
    ELSE record_block(marker, Head(records), order)
             \o record_blocks(marker, Tail(records), order)

\* C12: after the header block the emitted lines are, record by record, the
\* marker, the fields of the order list that the record holds in list
\* order, the remaining fields in the record's own order, and one blank
\* line; each field once, one "key: value" line per list element, is_a
\* pairs as "is_a: <id> ! <name>".
C12_FieldOrder ==
    Converted =>
        obo_lines = _write_header(data.header, <<>>)
                        \o record_blocks(TermMarker, data.terms,
                                         obo_field_order)
                        \o record_blocks(TypedefMarker, get_typedefs(data),
                                         typedef_field_order)

\* a term with two fields outside the order list around its id, a term
\* with a list before its id, a typedef with an is_a pair
C12_Witness ==
    /\ Converted
    /\ Len(data.terms) = 2
    /\ data.terms[1] = <<Entry(K_w, Str(<<"x">>)), Entry(K_id, Str(<<"A">>)),
                         Entry(K_v, Str(<<"y">>))>>
    /\ dict_has(data.terms[2], K_n)
    /\ data.has_typedefs
    /\ dict_has(data.typedefs[1], K_is_a)

\* C13: a non-empty header is emitted as its fields in stored order and
\* one blank line; an empty header emits nothing, so the text of a Document
\* with an empty header and a term starts with the line [Term].
C13_HeaderBlock ==
    Converted =>
        LET n == Len(data.header)
        IN  IF n = 0
            THEN /\ obo_lines # <<>> =>
                        obo_lines[1] \in {TermMarker, TypedefMarker}
                 /\ data.terms # <<>> =>
                        split(obo_text, "\n")[1] = TermMarker
            ELSE /\ Len(obo_lines) > n
                 /\ \A k \in 1..n :
                        obo_lines[k] = data.header[k].k \o <<":", " ">>
                                           \o data.header[k].v.s
                 /\ obo_lines[n + 1] = <<>>
                 /\ Len(obo_lines) > n + 1 =>
                        obo_lines[n + 2] \in {TermMarker, TypedefMarker}

\* a Document with an empty header and one term
C13_Witness ==
    /\ Converted
    /\ data.header = <<>>
    /\ Len(data.terms) = 1
    /\ obo_text[1] = "["

\* C14: the written text is the lines joined by newlines, with one newline
\* appended iff the last line is not blank (splitting the text at the
\* newlines gives the lines back, and an empty rest where the newline was
\* appended); no lines give the text of one newline. What the converter
\* writes for a Document is never empty and ends with a newline.
C14_FinalNewline ==
    /\ pc \notin {"convert", "write_to_file"} =>
           IF obo_lines = <<>>
           THEN obo_text = <<"\n">>
           ELSE split(obo_text, "\n")
                    = IF obo_lines[Len(obo_lines)] = <<>> THEN obo_lines
                      ELSE Append(obo_lines, <<>>)
    /\ Converted =>
           /\ obo_text # <<>>
           /\ obo_text[Len(obo_text)] = "\n"
           /\ (data.header = <<>> /\ data.terms = <<>> /\ ~data.has_typedefs)
                  => obo_text = <<"\n">>

\* lines whose last one is not blank: the newline is appended
C14_Witness ==
    /\ pc = "file_written"
    /\ Len(obo_lines) = MaxEmitted
    /\ obo_lines[1] = <<>>
    /\ obo_lines[Len(obo_lines)] # <<>>

-----------------------------------------------------------------------------
(* Claims about the comparison, checked under SpecDiff *)

Reported == pc \in {"compared", "compared_both"} /\ report # None

elements(seq) == {seq[n] : n \in 1..Len(seq)}

\* the ids a collection is indexed by, and the record indexed under an id:
\* the last one that carries it
indexed_ids(records) ==
    { dict_get(records[n], K_id) :
        n \in { m \in 1..Len(records) : dict_has(records[m], K_id) } }

record_of(records, id) ==
    records[CHOOSE n \in 1..Len(records) :
                /\ dict_has(records[n], K_id)
                /\ dict_get(records[n], K_id) = id
                /\ \A m \in (n + 1)..Len(records) :
                       ~(dict_has(records[m], K_id)
                         /\ dict_get(records[m], K_id) = id)]

ids_in(list) == { dict_get(list[n], K_id) : n \in 1..Len(list) }

entries_for(list, id) ==
    { n \in 1..Len(list) : dict_get(list[n], K_id) = id }

updates_for(list, id) == { n \in 1..Len(list) : list[n].id = id }

old_of(e) == IF "old_term" \in DOMAIN e THEN e.old_term ELSE e.old_typedef
new_of(e) == IF "new_term" \in DOMAIN e THEN e.new_term ELSE e.new_typedef

\* the collection diff of one collection, as the claim states it
Classified(old, new, changes) ==
    LET O == indexed_ids(old)
        N == indexed_ids(new)
    IN  /\ \A id \in N \ O :
               /\ Cardinality(entries_for(changes.added, id)) = 1
               /\ \A n \in entries_for(changes.added, id) :
                      changes.added[n] = record_of(new, id)
        /\ \A id \in O \ N :
               /\ Cardinality(entries_for(changes.deleted, id)) = 1
               /\ \A n \in entries_for(changes.deleted, id) :
                      changes.deleted[n] = record_of(old, id)
        /\ \A id \in O \intersect N :
               LET ro == record_of(old, id)
                   rn == record_of(new, id)
                   diff == _compare_term_fields(ro, rn)
               IN  /\ diff # {} =>
                          /\ Cardinality(updates_for(changes.updated, id)) = 1
                          /\ \A n \in updates_for(changes.updated, id) :
                                 /\ old_of(changes.updated[n]) = ro
                                 /\ new_of(changes.updated[n]) = rn
                                 /\ changes.updated[n].field_changes = diff
                   /\ dict_eq(ro, rn) => updates_for(changes.updated, id) = {}
        /\ LET a == ids_in(changes.added)
               d == ids_in(changes.deleted)
               u == { changes.updated[n].id : n \in 1..Len(changes.updated) }
           IN  /\ a = N \ O
               /\ d = O \ N
               /\ u \subseteq O \intersect N
               /\ Len(changes.added) = Cardinality(a)
               /\ Len(changes.deleted) = Cardinality(d)
               /\ Len(changes.updated) = Cardinality(u)

\* C2: for terms and typedefs alike, an id indexed only in new gives exactly
\* one added entry (the new record), an id indexed only in old exactly one
\* deleted entry, an id on both sides with a non-empty field diff exactly
\* one updated entry with the id, both records and the diff, equal records
\* give no entry, and no id is in two of the three lists.
C2_Classification ==
    Reported =>
        /\ Classified(old_data.terms, new_data.terms, report.term_changes)
        /\ Classified(get_typedefs(old_data), get_typedefs(new_data),
                      report.typedef_changes)

\* one diff with an added term, an updated term and a deleted typedef
C2_Witness ==
    /\ Reported
    /\ ids_in(report.term_changes.added) = {ID_B}
    /\ Len(report.term_changes.updated) = 1
    /\ report.term_changes.updated[1].id = ID_A
    /\ ids_in(report.typedef_changes.deleted) = {ID_T}

\* C3: the ids added by diff(A, B) are the ids deleted by diff(B, A) and
\* the ids deleted by diff(A, B) are the ids added by diff(B, A), for terms
\* and for typedefs; one direction gives a report iff the other does.
C3_Symmetry ==
    pc = "compared_both" =>
        /\ (report = None) <=> (report_rev = None)
        /\ report # None =>
               /\ ids_in(report.term_changes.added)
                      = ids_in(report_rev.term_changes.deleted)
               /\ ids_in(report.term_changes.deleted)
                      = ids_in(report_rev.term_changes.added)
               /\ ids_in(report.typedef_changes.added)
                      = ids_in(report_rev.typedef_changes.deleted)
               /\ ids_in(report.typedef_changes.deleted)
                      = ids_in(report_rev.typedef_changes.added)

C3_Witness ==
    /\ pc = "compared_both"
    /\ report # None
    /\ ids_in(report.term_changes.added) = {ID_B}
    /\ ids_in(report.term_changes.deleted) = {ID_A}
    /\ ids_in(report.typedef_changes.added) = {ID_T}

NoChanges(r) ==
    /\ r # None
    /\ r.has_changes = FALSE
    /\ r.header_changes = <<>>
    /\ r.term_changes.added = <<>>
    /\ r.term_changes.deleted = <<>>
    /\ r.term_changes.updated = <<>>
    /\ r.typedef_changes.added = <<>>
    /\ r.typedef_changes.deleted = <<>>
    /\ r.typedef_changes.updated = <<>>

\* C4: diff(A, A) has has_changes = false, an empty header change map and
\* six empty lists, for every Document A.
C4_Reflexive ==
    (pc = "compared" /\ old_data = new_data) => NoChanges(report)

\* what holds of diff(A, A): when a report is returned, it has no changes
ReflexiveWhenReported ==
    (Reported /\ old_data = new_data) => NoChanges(report)

\* the field diff of two maps, as the claim states it
FieldsClassified(old, new, changes) ==
    /\ \A key \in dict_keys(old) \union dict_keys(new) :
           LET hits == { c \in changes : c.k = key }
           IN  IF ~dict_has(old, key)
               THEN hits = { Entry(key, [action |-> "added",
                                         new_value |-> dict_get(new, key)]) }
               ELSE IF ~dict_has(new, key)
               THEN hits = { Entry(key, [action |-> "deleted",
                                         old_value |-> dict_get(old, key)]) }
               ELSE IF dict_get(old, key) # dict_get(new, key)
               THEN hits = { Entry(key, [action |-> "updated",
                                         old_value |-> dict_get(old, key),
                                         new_value |-> dict_get(new, key)]) }
               ELSE hits = {}
    /\ \A c \in changes : c.k \in dict_keys(old) \union dict_keys(new)

UpdatesClassified(updated) ==
    \A n \in 1..Len(updated) :
        FieldsClassified(old_of(updated[n]), new_of(updated[n]),
                         updated[n].field_changes)

\* C5: the header diff and the field diff of every updated record report
\* each key of either map as added (new only, with new_value), deleted (old
\* only, with old_value) or updated (both, values differ, with both values)
\* and report no key whose values are equal.
C5_FieldDiff ==
    Reported =>
        /\ Len(report.header_changes)
               = Cardinality(elements(report.header_changes))
        /\ FieldsClassified(old_data.header, new_data.header,
                            elements(report.header_changes))
        /\ UpdatesClassified(report.term_changes.updated)
        /\ UpdatesClassified(report.typedef_changes.updated)

\* two records that differ in exactly one field value: one entry, keyed by
\* that field, with action updated and both values
C5_Witness ==
    /\ Reported
    /\ \E n \in 1..Len(report.term_changes.updated) :
           report.term_changes.updated[n].field_changes
               = { Entry(K_name, [action |-> "updated", old_value |-> V_x,
                                  new_value |-> V_y]) }
    /\ \E c \in elements(report.header_changes) : c.v.action = "added"
    /\ \E c \in elements(report.header_changes) : c.v.action = "updated"

\* C6: in every report, has_changes is true iff the header change map or
\* one of the six lists is non-empty, the six counts are the lengths of
\* the lists, and stats.header_updated is true iff the header changed.
C6_Consistent ==
    Reported =>
        /\ report.has_changes <=>
               \/ Len(report.header_changes) > 0
               \/ \E c \in {report.term_changes, report.typedef_changes} :
                      Len(c.added) + Len(c.deleted) + Len(c.updated) > 0
        /\ report.stats.terms_added = Len(report.term_changes.added)
        /\ report.stats.terms_deleted = Len(report.term_changes.deleted)
        /\ report.stats.terms_updated = Len(report.term_changes.updated)
        /\ report.stats.typedefs_added = Len(report.typedef_changes.added)
        /\ report.stats.typedefs_deleted = Len(report.typedef_changes.deleted)
        /\ report.stats.typedefs_updated = Len(report.typedef_changes.updated)
        /\ report.stats.header_updated <=> Len(report.header_changes) > 0

\* a report whose only change is an added typedef
C6_Witness ==
    /\ Reported
    /\ report.has_changes
    /\ report.header_changes = <<>>
    /\ report.term_changes = [added |-> <<>>, deleted |-> <<>>,
                              updated |-> <<>>]
    /\ report.stats.typedefs_added = 1
    /\ report.stats.header_updated = FALSE


-----------------------------------------------------------------------------
(* Claims about the comparison of two records, checked under SpecRecordDiff *)

\* the records of a Document the comparison indexes, and the one with id A
compared_records(doc) == doc.terms \o get_typedefs(doc)
OldA == record_of(compared_records(old_data), ID_A)
NewA == record_of(compared_records(new_data), ID_A)

all_updated == report.term_changes.updated \o report.typedef_changes.updated
all_added == report.term_changes.added \o report.typedef_changes.added
all_deleted == report.term_changes.deleted \o report.typedef_changes.deleted

\* two lists of the same values in another order
reordered(a, b) ==
    /\ a.tag = "list"
    /\ b.tag = "list"
    /\ a # b
    /\ Len(a.items) = Len(b.items)
    /\ \E p \in Orders(1..Len(a.items)) :
           \A n \in 1..Len(a.items) : b.items[n] = a.items[p[n]]

OnlyListOrderDiffers ==
    /\ dict_has(OldA, K_v)
    /\ dict_has(NewA, K_v)
    /\ reordered(dict_get(OldA, K_v), dict_get(NewA, K_v))

\* C23: two records with the same id that differ only in the order of the
\* values of one list-valued field give one updated entry for that id, whose
\* field changes hold exactly that field, with the action updated.
C23_ListOrder ==
    (Reported /\ OnlyListOrderDiffers) =>
        /\ Len(all_updated) = 1
        /\ all_updated[1].id = ID_A
        /\ all_updated[1].field_changes =
               { Entry(K_v, [action |-> "updated",
                             old_value |-> dict_get(OldA, K_v),
                             new_value |-> dict_get(NewA, K_v)]) }

C23_Witness ==
    /\ Reported
    /\ OnlyListOrderDiffers
    /\ report.has_changes
    /\ report.stats.terms_updated = 1

has_id(rec) == dict_has(rec, K_id)
with_id(records) == SelectSeq(records, has_id)

\* C24: a record without id is in no added, deleted or updated list, the
\* comparison of Documents that hold such records returns a report, and two
\* Documents that differ only in such records have no changes.
C24_WithoutIdInvisible ==
    /\ pc \in {"compared", "compared_both"} => report # None
    /\ Reported =>
           /\ \A n \in 1..Len(all_added) : has_id(all_added[n])
           /\ \A n \in 1..Len(all_deleted) : has_id(all_deleted[n])
           /\ \A n \in 1..Len(all_updated) :
                  has_id(old_of(all_updated[n]))
                      /\ has_id(new_of(all_updated[n]))
           /\ (/\ with_id(old_data.terms) = with_id(new_data.terms)
               /\ with_id(get_typedefs(old_data))
                      = with_id(get_typedefs(new_data))
               /\ old_data.header = new_data.header)
                  => ~report.has_changes

\* the old Document holds a record without id the new one does not hold,
\* and nothing else differs
C24_Witness ==
    /\ Reported
    /\ OldA = NewA
    /\ Len(compared_records(old_data)) = 2
    /\ Len(compared_records(new_data)) = 1
    /\ ~report.has_changes
    /\ all_deleted = <<>>

\* C29: for two records that share an id, an updated entry for that id is
\* emitted exactly when the two records are not equal.
C29_NoSilentChange ==
    Reported =>
        ((\E n \in 1..Len(all_updated) : all_updated[n].id = ID_A)
            <=> ~dict_eq(OldA, NewA))

\* what does hold: an updated entry is emitted only for unequal records, and
\* for all unequal records but those that differ only in fields that are
\* null on one side and absent on the other
holds_null(rec) == dict_has(rec, K_v) /\ dict_get(rec, K_v) = None

ChangeReportedUnlessNull ==
    Reported =>
        /\ (\E n \in 1..Len(all_updated) : all_updated[n].id = ID_A)
               => ~dict_eq(OldA, NewA)
        /\ (/\ ~dict_eq(OldA, NewA)
            /\ ~(holds_null(OldA) /\ ~dict_has(NewA, K_v))
            /\ ~(holds_null(NewA) /\ ~dict_has(OldA, K_v)))
               => \E n \in 1..Len(all_updated) : all_updated[n].id = ID_A


-----------------------------------------------------------------------------
(* Claims about the module-level functions, checked under SpecModuleLevel   *)

\* C27: for every OBO text the module-level parse_obo_file returns the
\* Document OBOFileParser.parse_obo_file returns, and for every Document the
\* module-level convert_json_to_obo writes the text FileConverter writes
C27_SameAsClass ==
    pc \in {"parsed_both", "converted_both"} =>
        module_output = class_output

\* the texts the two parsers may differ on hold a relationship line
has_relationship_line(text) ==
    \E n \in 1..Len(split(text, "\n")) :
        LET ln == split(text, "\n")[n]
        IN  contains(ln, ":") /\ strip(split_colon(ln)[1]) = K_relationship

\* the two parsers return the same Document for a text without a
\* relationship line
ParsersAgreeWithoutRelationship ==
    pc = "parsed_both" /\ ~has_relationship_line(given) =>
        module_output = class_output


-----------------------------------------------------------------------------
(* Claims about the timestamped files, checked under SpecVersions           *)

\* the commit time whose timestamp the name carries
stamp_of(f) == CHOOSE n \in 1..MaxStamps : is_substring(strftime(n), f)

\* f is what the search has to return for these matching files
LatestOf(matching, f) ==
    IF matching = {} THEN f = None
    ELSE /\ f \in matching
         /\ \A g \in matching : stamp_of(g) <= stamp_of(f)

obo_pattern(names) == glob(names, file_basename \o <<"_">>, file_extension)
json_pattern(names) == glob(names, file_basename \o <<"_">>, JsonExtension)

\* C22: find_latest_timestamped_file and _find_latest_json_file return None
\* when no file matches the pattern and otherwise the matching file whose
\* name carries the latest timestamp, whatever files the directory holds
C22_LatestFound ==
    /\ pc = "found_latest" => LatestOf(obo_pattern(directory), found)
    /\ pc = "found_latest_json" => LatestOf(json_pattern(directory), found)

\* a name written as _download_to_temp and _convert_and_validate_temp do
is_temp(f) == startswith(f, temp_filename(<<>>, <<>>))

\* the searches do return the latest file when no temporary file matches
LatestFoundAmongVersions ==
    /\ pc = "found_latest" /\ ~(\E f \in obo_pattern(directory) : is_temp(f))
           => LatestOf(obo_pattern(directory), found)
    /\ pc = "found_latest_json"
       /\ ~(\E f \in json_pattern(directory) : is_temp(f))
           => LatestOf(json_pattern(directory), found)

\* the commit times of the versions whose OBO file the directory holds
versions_in(names) ==
    { n \in 1..MaxStamps :
        file_basename \o <<"_">> \o strftime(n) \o file_extension \in names }

two_latest(S) == { n \in S : Cardinality({ m \in S : m > n }) < 2 }

CleanupStep == pc = "_cleanup_old_versions" /\ pc' = "cleaned"

\* C25: after _cleanup_old_versions only the two latest versions remain,
\* each with its OBO, info and JSON file, and every older version is
\* removed, for any number of stored versions; with two or fewer versions
\* nothing is deleted
C25_Retention ==
    [][CleanupStep =>
        LET before == versions_in(directory)
        IN  IF Cardinality(before) <= 2 THEN directory' = directory
            ELSE /\ versions_in(directory') = two_latest(before)
                 /\ \A n \in two_latest(before) :
                        version_files(strftime(n)) \subseteq directory'
                 /\ \A n \in before \ two_latest(before) :
                        version_files(strftime(n)) \cap directory' = {}]_vars

\* what does hold: the files of at most one version are removed, those of
\* the earliest one, and only when the directory holds more than two
\* timestamps; three versions without temporary files become two
RetentionRemovesEarliest ==
    [][CleanupStep =>
        LET before == versions_in(directory)
            timestamps == { timestamp_part(f) : f \in obo_pattern(directory) }
        IN  /\ Cardinality(timestamps) <= 2 => directory' = directory
            /\ Cardinality(before \ versions_in(directory')) <= 1
            /\ \A n \in before \ versions_in(directory') :
                  /\ \A m \in before : n <= m
                  /\ version_files(strftime(n)) \cap directory' = {}
            /\ \A n \in versions_in(directory') :
                   version_files(strftime(n)) \subseteq directory'
            /\ Cardinality(before) = 3 /\ Cardinality(timestamps) = 3
                   => versions_in(directory') = two_latest(before)]_vars

\* C28: whenever _apply_update returns True the OBO file and the JSON file
\* of the version just committed exist and local_filename names an existing
\* file
C28_CommittedSurvives ==
    pc = "applied" /\ apply_result = TRUE =>
        /\ local_filename \in directory
        /\ splitext(local_filename)[1] \o JsonExtension \in directory

\* what does hold: the committed version survives when a file already
\* stored carries an earlier timestamp than the commit
CommittedSurvivesWhenNotEarliest ==
    [][/\ pc = "_apply_update_on_disk"
       /\ apply_result' = TRUE
       /\ \E f \in obo_pattern(directory) \ TempFiles :
              str_lt(timestamp_part(f), timestamp_part(local_filename'))
       => /\ local_filename' \in directory'
          /\ splitext(local_filename')[1] \o JsonExtension \in directory']_vars


-----------------------------------------------------------------------------
(* Claims about run_workflow, checked under SpecWorkflow and, for           *)
(* termination, under SpecWorkflowFair                                      *)

ActiveFileSetWhenJsonStored ==
    pc = "returned" =>
        IF active_file = None THEN latest_json_file(directory) = None
        ELSE \/ active_file = UserUploadJson
             \/ /\ active_file.s \in directory
                /\ endswith(active_file.s, JsonExtension)

WorkflowEnds == <>(pc \in {"returned", "raised AttributeError"})


-----------------------------------------------------------------------------
(* Claims about the validation gates, checked under SpecPipeline            *)

\* the round-trip validation of the text against the text written back can
\* succeed
roundtrip_valid(text, written) ==
    \E run1, run2 \in GitRuns :
        validate_roundtrip_conversion(FileWith(text), FileWith(written),
                                      run1, run2)

\* process_user_file returned success for an OBO candidate
UserAccepted ==
    /\ pc = "user_returned"
    /\ returned.success
    /\ candidate.extension = ".obo"

\* _apply_update has been reached for the downloaded candidate
UpdaterAccepted == pc = "_apply_update" \/ committed

\* C21: a candidate Document derived from an OBO file is accepted, by
\* process_user_file returning success or by _apply_update being reached,
\* only if its structural validation and its round-trip validation succeed
C21_HardGate ==
    /\ UserAccepted =>
           LET parsed == parse_obo_file(candidate.text)
           IN  /\ _validate_json_structure(document_value(parsed)).valid
               /\ roundtrip_valid(candidate.text, convert_json_to_obo(parsed))
    /\ UpdaterAccepted =>
           LET parsed == updater_parse_obo_file(candidate.text)
           IN  /\ validate_json_structure(document_value(parsed)).success
               /\ roundtrip_valid(candidate.text,
                                  updater_convert_json_to_obo(parsed))

\* what does hold: process_user_file accepts an OBO candidate only after
\* both validations, and _apply_update is reached only after the round-trip
\* validation
AcceptedAfterRoundTrip ==
    /\ UserAccepted =>
           LET parsed == parse_obo_file(candidate.text)
           IN  /\ _validate_json_structure(document_value(parsed)).valid
               /\ roundtrip_valid(candidate.text, convert_json_to_obo(parsed))
    /\ UpdaterAccepted =>
           roundtrip_valid(
               candidate.text,
               updater_convert_json_to_obo(
                   updater_parse_obo_file(candidate.text)))

=============================================================================
